---- MODULE Spec2Model ----
(***************************************************************************)
(* Model of the TradingLab market economics (engine/market_spec.py:        *)
(* MarketSpec and Broker) and of the training validation decision          *)
(* (validation/training_validator.py: TrainingValidator).                  *)
(*                                                                         *)
(* Python floats are modelled as exact rationals <<numerator, denominator>> *)
(* in lowest terms with a positive denominator; None is <<0, 0>>.  A Python *)
(* call either returns a value or raises, which an outcome record keeps:    *)
(* [raised |-> FALSE, val |-> v] or [raised |-> TRUE, val |-> None].        *)
(***************************************************************************)
EXTENDS Integers, Sequences, FiniteSets

VARIABLES
    market_spec,        \* the MarketSpec the Broker holds (dataclass fields)
    margin_call_level,  \* Broker.margin_call_level
    call,               \* the method call in progress: its name and arguments
    result,             \* the outcome of that call
    pc,                 \* "idle" (no call made) or "returned"
    criteria,           \* TrainingValidator.criteria (thresholds)
    vpc,                \* the step TrainingValidator.validate is at
    args,               \* validate's run_sensitivity and sensitivity_params
    backtest_result,    \* BacktestResult (total_trades)
    enhanced_metrics,   \* calculate_enhanced_metrics' dict
    quality_checks,     \* _check_backtest_quality's dict
    test_suitability,   \* test name -> TestSuitability.suitable
    mc_results,         \* MonteCarloSuiteResult
    mc_checks,          \* _check_monte_carlo_suite_conditional's dict
    test_pass,          \* its locals perm_pass, bootstrap_pass, randomized_pass
    sensitivity_results, \* _run_sensitivity's sensitivity_analysis, or None
    sensitivity_checks, \* _check_sensitivity's dict
    validation_result,  \* the TrainingValidationResult returned
    suite_draws,        \* what the Monte Carlo suite draws on the data, per seed
    runs,               \* the Monte Carlo and validate runs made on the data
    trades_executed,    \* LiveTradingEngine.trades_executed
    trades_skipped,     \* LiveTradingEngine.trades_skipped
    active_positions,   \* LiveTradingEngine.active_positions: symbol -> position
    active_stop_orders, \* LiveTradingEngine.active_stop_orders: symbol -> order id
    peak_equity,        \* LiveTradingEngine.peak_equity
    signal,             \* the signal process_signal was called with
    live_price,      \* the current_price process_signal was called with
    lpc,                \* the step LiveTradingEngine.process_signal is at
    should_stop,        \* process_signal's local: check_safety_limits' verdict
    current_equity,     \* check_safety_limits' local: balance.total_balance
    available_balance,  \* _process_entry_signal's balance.available_balance
    margin_required,    \* _process_entry_signal's local margin_required
    last_call,          \* the latest execution-adapter call and its outcome
    calls,              \* the order calls made to the adapter for this signal
    before,             \* the engine's fields when process_signal was entered
    stops_placed,       \* how many stop orders the adapter has accepted
    cancelled           \* the ids of the stop orders the adapter has cancelled

econ_vars == <<market_spec, margin_call_level, call, result, pc>>

val_vars == <<criteria, vpc, args, backtest_result, enhanced_metrics,
              quality_checks, test_suitability, mc_results, mc_checks, test_pass,
              sensitivity_results, sensitivity_checks, validation_result,
              suite_draws, runs>>

live_vars == <<trades_executed, trades_skipped, active_positions,
               active_stop_orders, peak_equity, signal, live_price, lpc,
               should_stop, current_equity, available_balance, margin_required,
               last_call, calls, before, stops_placed, cancelled>>

vars == <<econ_vars, val_vars, live_vars>>

(***************************************************************************)
(* Bounds of the model.                                                    *)
(***************************************************************************)
MaxPrice == 2
MaxQty == 2

(***************************************************************************)
(* Float arithmetic, as exact rationals.                                   *)
(***************************************************************************)
None == <<0, 0>>

Abs(n) == IF n < 0 THEN -n ELSE n

RECURSIVE GCD(_, _)
GCD(a, b) == IF b = 0 THEN a ELSE GCD(b, a % b)

Norm(n, d) ==
    LET g == GCD(Abs(n), Abs(d))
        s == IF d < 0 THEN -1 ELSE 1
    IN  <<(s * n) \div g, (s * d) \div g>>

R(n) == <<n, 1>>

RAdd(a, b) == Norm(a[1] * b[2] + b[1] * a[2], a[2] * b[2])
RSub(a, b) == Norm(a[1] * b[2] - b[1] * a[2], a[2] * b[2])
RMul(a, b) == Norm(a[1] * b[1], a[2] * b[2])
RAbs(a) == <<Abs(a[1]), a[2]>>
RLt(a, b) == a[1] * b[2] < b[1] * a[2]
RLe(a, b) == a[1] * b[2] <= b[1] * a[2]
RMin(a, b) == IF RLt(b, a) THEN b ELSE a
IsZero(a) == a[1] = 0

Ret(v) == [raised |-> FALSE, val |-> v]
Raise == [raised |-> TRUE, val |-> None]
\* a returned bool, kept apart from the returned floats
RetBool(b) == [raised |-> FALSE, flag |-> b]

\* a / b: ZeroDivisionError when b is zero
RDiv(a, b) == IF IsZero(b) THEN Raise ELSE Ret(Norm(a[1] * b[2], a[2] * b[1]))

\* Python's "x or y" on an optional float: None and 0.0 are both falsy
Or(x, y) == IF x = None \/ IsZero(x) THEN y ELSE x

(***************************************************************************)
(* MarketSpec                                                              *)
(***************************************************************************)
AssetClasses == {"forex", "crypto", "futures"}
Leverages == {R(0), R(1), R(50)}
CommissionRates == {R(0), <<1, 4>>}

MarketSpecs ==
    [asset_class : AssetClasses,
     leverage : Leverages,
     commission_rate : CommissionRates,
     initial_margin_per_contract : {None, R(3)},
     intraday_margin_per_contract : {None, R(2)},
     maintenance_margin_rate : {None, <<1, 2>>}]

calculate_margin_signed(self, entry_price, quantity, is_intraday) ==
    IF self.asset_class = "futures" /\ self.initial_margin_per_contract /= None
    THEN IF is_intraday /\ self.intraday_margin_per_contract /= None
         THEN Ret(RMul(quantity, self.intraday_margin_per_contract))
         ELSE Ret(RMul(quantity, self.initial_margin_per_contract))
    ELSE RDiv(RMul(entry_price, quantity), self.leverage)

calculate_margin(self, entry_price, quantity, is_intraday) ==
    IF self.asset_class = "futures"
    THEN IF self.initial_margin_per_contract /= None
         THEN IF is_intraday /\ self.intraday_margin_per_contract /= None
              THEN Ret(RMul(RAbs(quantity), self.intraday_margin_per_contract))
              ELSE Ret(RMul(RAbs(quantity), self.initial_margin_per_contract))
         ELSE RDiv(RMul(entry_price, RAbs(quantity)), self.leverage)
    ELSE RDiv(RMul(entry_price, RAbs(quantity)), self.leverage)

calculate_maintenance_margin_any_class(self, entry_price, quantity, current_price) ==
    LET price == Or(current_price, entry_price)
        notional_value == RMul(price, RAbs(quantity))
    IN  IF self.maintenance_margin_rate /= None
        THEN Ret(RMul(notional_value, self.maintenance_margin_rate))
        ELSE IF self.asset_class = "futures" /\ self.initial_margin_per_contract /= None
             THEN Ret(RMul(RAbs(quantity), self.initial_margin_per_contract))
             ELSE calculate_margin(self, entry_price, quantity, TRUE)

calculate_maintenance_margin(self, entry_price, quantity, current_price) ==
    LET price == Or(current_price, entry_price)
        notional_value == RMul(price, RAbs(quantity))
    IN  IF self.asset_class = "futures"
        THEN IF self.maintenance_margin_rate /= None
             THEN Ret(RMul(notional_value, self.maintenance_margin_rate))
             ELSE IF self.initial_margin_per_contract /= None
                  THEN Ret(RMul(RAbs(quantity), self.initial_margin_per_contract))
                  ELSE calculate_margin(self, entry_price, quantity, TRUE)
        ELSE calculate_margin(self, entry_price, quantity, TRUE)

calculate_unrealized_pnl_leveraged(self, entry_price, current_price, quantity, direction) ==
    IF direction = "long"
    THEN Ret(RMul(RMul(RSub(current_price, entry_price), quantity), self.leverage))
    ELSE Ret(RMul(RMul(RSub(entry_price, current_price), quantity), self.leverage))

calculate_unrealized_pnl_long_only(self, entry_price, current_price, quantity, direction) ==
    Ret(RMul(RSub(current_price, entry_price), quantity))

calculate_unrealized_pnl(self, entry_price, current_price, quantity, direction) ==
    IF direction = "long"
    THEN Ret(RMul(RSub(current_price, entry_price), quantity))
    ELSE Ret(RMul(RSub(entry_price, current_price), quantity))

calculate_realized_pnl(self, entry_price, exit_price, quantity, direction) ==
    calculate_unrealized_pnl(self, entry_price, exit_price, quantity, direction)

(***************************************************************************)
(* Broker                                                                  *)
(***************************************************************************)
MarginCallLevels == {R(0), R(1), R(2)}

check_margin_call_no_floor(level, equity, margin_used) ==
    IF RLe(margin_used, R(0))
    THEN RetBool(FALSE)
    ELSE RetBool(RLt(RDiv(equity, margin_used).val, level))

check_margin_call_inclusive(level, equity, margin_used) ==
    IF RLe(margin_used, R(0))
    THEN RetBool(FALSE)
    ELSE IF RLe(equity, R(0))
         THEN RetBool(TRUE)
         ELSE RetBool(RLe(RDiv(equity, margin_used).val, level))

check_margin_call(level, equity, margin_used) ==
    IF RLe(margin_used, R(0))
    THEN RetBool(FALSE)
    ELSE IF RLe(equity, R(0))
         THEN RetBool(TRUE)
         ELSE \* margin_used > 0 here, so the division is defined
              RetBool(RLt(RDiv(equity, margin_used).val, level))

\* Broker.calculate_margin_required: calculate_margin with is_intraday left
\* at its default, True
calculate_margin_required(self, entry_price, quantity) ==
    calculate_margin(self, entry_price, quantity, TRUE)

\* the tuple (can_afford, required_cash)
RetAfford(can_afford, required_cash) ==
    [raised |-> FALSE, flag |-> can_afford, val |-> required_cash]

can_afford_position(self, entry_price, quantity, available_cash, commission_rate) ==
    LET margin == calculate_margin_required(self, entry_price, quantity)
        rate == Or(commission_rate, self.commission_rate)
        commission == RMul(RMul(entry_price, quantity), rate)
    IN  IF margin.raised
        THEN Raise
        ELSE LET required_cash == RAdd(margin.val, commission)
             IN  RetAfford(RLe(required_cash, available_cash), required_cash)

adjust_quantity_for_cash(self, entry_price, desired_quantity, available_cash, commission_rate) ==
    LET rate == Or(commission_rate, self.commission_rate)
        inv_leverage == RDiv(R(1), self.leverage)
    IN  IF inv_leverage.raised
        THEN Raise
        ELSE LET max_affordable_qty ==
                     RDiv(available_cash, RMul(entry_price, RAdd(inv_leverage.val, rate)))
             IN  IF max_affordable_qty.raised
                 THEN Raise
                 ELSE Ret(RMin(desired_quantity, max_affordable_qty.val))

(***************************************************************************)
(* Calls on a Broker and its MarketSpec.  The inputs of each call are      *)
(* drawn from small sets.                                                  *)
(***************************************************************************)
Prices == {R(p) : p \in 0..MaxPrice}
Quantities == {R(q) : q \in -MaxQty..MaxQty}
Directions == {"long", "short"}
MarginAmounts == {R(-50), R(0), R(100), R(150)}
CashAmounts == {R(0), R(1), R(5)}
RateArgs == {None, R(0), <<1, 2>>}

NoCall == [op |-> "none"]
NoResult == Ret(None)

\* an empty dict
EmptyDict == [k \in {} |-> TRUE]

\* no LiveTradingEngine has been constructed
NoEngine ==
    /\ trades_executed = EmptyDict
    /\ trades_skipped = EmptyDict
    /\ active_positions = EmptyDict
    /\ active_stop_orders = EmptyDict
    /\ peak_equity = EmptyDict
    /\ signal = EmptyDict
    /\ live_price = EmptyDict
    /\ lpc = "none"
    /\ should_stop = EmptyDict
    /\ current_equity = EmptyDict
    /\ available_balance = EmptyDict
    /\ margin_required = EmptyDict
    /\ last_call = EmptyDict
    /\ calls = EmptyDict
    /\ before = EmptyDict
    /\ stops_placed = EmptyDict
    /\ cancelled = EmptyDict

\* no run on a data set is being compared with another
NoRuns ==
    /\ suite_draws = EmptyDict
    /\ runs = <<>>

\* no validation has been started: every local of validate is unset
NoValidation ==
    /\ NoRuns
    /\ vpc = "none"
    /\ args = EmptyDict
    /\ backtest_result = EmptyDict
    /\ enhanced_metrics = EmptyDict
    /\ quality_checks = EmptyDict
    /\ test_suitability = EmptyDict
    /\ mc_results = EmptyDict
    /\ mc_checks = EmptyDict
    /\ test_pass = EmptyDict
    /\ sensitivity_results = EmptyDict
    /\ sensitivity_checks = EmptyDict
    /\ validation_result = EmptyDict

\* the levels a Broker on a market is built with: check_margin_call reads no
\* MarketSpec field and no other method reads margin_call_level, so the
\* non-default levels are tried on the unleveraged forex markets only
BrokerLevels(spec) ==
    IF spec.asset_class = "forex" /\ spec.leverage = R(1)
    THEN MarginCallLevels
    ELSE {R(1)}

EconInit ==
    /\ criteria = EmptyDict
    /\ NoValidation
    /\ NoEngine
    /\ market_spec \in MarketSpecs
    /\ margin_call_level \in BrokerLevels(market_spec)
    /\ call = NoCall
    /\ result = NoResult
    /\ pc = "idle"

Returns(c, r) ==
    /\ pc = "idle"
    /\ call' = c
    /\ result' = r
    /\ pc' = "returned"
    /\ UNCHANGED <<market_spec, margin_call_level, val_vars, live_vars>>

CalculateMargin ==
    /\ pc = "idle"
    /\ \E p \in Prices, q \in Quantities, i \in BOOLEAN :
           Returns([op |-> "calculate_margin", entry_price |-> p, quantity |-> q,
                    is_intraday |-> i],
                   calculate_margin(market_spec, p, q, i))

CalculateMaintenanceMargin ==
    /\ pc = "idle"
    /\ \E p \in Prices, q \in Quantities, c \in Prices \cup {None} :
           Returns([op |-> "calculate_maintenance_margin", entry_price |-> p,
                    quantity |-> q, current_price |-> c],
                   calculate_maintenance_margin(market_spec, p, q, c))

CalculateUnrealizedPnl ==
    /\ pc = "idle"
    /\ \E p \in Prices, c \in Prices, q \in Quantities, d \in Directions :
           Returns([op |-> "calculate_unrealized_pnl", entry_price |-> p,
                    current_price |-> c, quantity |-> q, direction |-> d],
                   calculate_unrealized_pnl(market_spec, p, c, q, d))

CalculateRealizedPnl ==
    /\ pc = "idle"
    /\ \E p \in Prices, x \in Prices, q \in Quantities, d \in Directions :
           Returns([op |-> "calculate_realized_pnl", entry_price |-> p,
                    exit_price |-> x, quantity |-> q, direction |-> d],
                   calculate_realized_pnl(market_spec, p, x, q, d))

CheckMarginCall ==
    /\ pc = "idle"
    /\ \E e \in MarginAmounts, m \in MarginAmounts :
           Returns([op |-> "check_margin_call", equity |-> e, margin_used |-> m],
                   check_margin_call(margin_call_level, e, m))

AdjustQuantityForCash ==
    /\ pc = "idle"
    /\ \E p \in Prices, q \in Quantities, c \in CashAmounts, r \in RateArgs :
           Returns([op |-> "adjust_quantity_for_cash", entry_price |-> p,
                    desired_quantity |-> q, available_cash |-> c, commission_rate |-> r],
                   adjust_quantity_for_cash(market_spec, p, q, c, r))

\* the caller drops the returned value; the objects can be called again
Discard ==
    /\ pc = "returned"
    /\ pc' = "idle"
    /\ call' = NoCall
    /\ result' = NoResult
    /\ UNCHANGED <<market_spec, margin_call_level, val_vars, live_vars>>

CanAffordPosition ==
    /\ pc = "idle"
    /\ \E p \in Prices, q \in Quantities, c \in CashAmounts, r \in RateArgs :
           Returns([op |-> "can_afford_position", entry_price |-> p, quantity |-> q,
                    available_cash |-> c, commission_rate |-> r],
                   can_afford_position(market_spec, p, q, c, r))

EconNext ==
    \/ CalculateMargin
    \/ CalculateMaintenanceMargin
    \/ CalculateUnrealizedPnl
    \/ CalculateRealizedPnl
    \/ CheckMarginCall
    \/ AdjustQuantityForCash
    \/ CanAffordPosition
    \/ Discard

SpecEcon == EconInit /\ [][EconNext]_vars

(***************************************************************************)
(* Properties of the market economics, checked under SpecEcon.             *)
(***************************************************************************)
IsPnlCall == call.op \in {"calculate_unrealized_pnl", "calculate_realized_pnl"}

\* the price the position is marked at: current_price or exit_price
MarkPrice == IF call.op = "calculate_realized_pnl" THEN call.exit_price
             ELSE call.current_price

PnlOn(spec) ==
    IF call.op = "calculate_realized_pnl"
    THEN calculate_realized_pnl(spec, call.entry_price, call.exit_price,
                                call.quantity, call.direction)
    ELSE calculate_unrealized_pnl(spec, call.entry_price, call.current_price,
                                  call.quantity, call.direction)

\* C1: the P&L returned by calculate_unrealized_pnl and calculate_realized_pnl
\* is the value the same call returns on every MarketSpec that differs from
\* this one only in leverage: leverage never influences P&L.
C1_LeverageInvariantPnl ==
    IsPnlCall =>
        \A lev \in Leverages :
            PnlOn([market_spec EXCEPT !.leverage = lev]) = result

\* C1 witness: a P&L call with a non-zero result on a leveraged market
C1_Witness ==
    /\ IsPnlCall
    /\ market_spec.leverage = R(50)
    /\ ~IsZero(result.val)

\* C2: calculate_unrealized_pnl returns (current - entry) * quantity for a
\* long and (entry - current) * quantity for a short position, and
\* calculate_realized_pnl returns what calculate_unrealized_pnl returns for
\* the exit price.
C2_PnlFormula ==
    /\ IsPnlCall /\ call.direction = "long" =>
           result = Ret(RMul(RSub(MarkPrice, call.entry_price), call.quantity))
    /\ IsPnlCall /\ call.direction = "short" =>
           result = Ret(RMul(RSub(call.entry_price, MarkPrice), call.quantity))
    /\ call.op = "calculate_realized_pnl" =>
           result = calculate_unrealized_pnl(market_spec, call.entry_price,
                                             call.exit_price, call.quantity,
                                             call.direction)

\* C2 witness: a short position closed at a lower price, with a profit
C2_Witness ==
    /\ call.op = "calculate_realized_pnl"
    /\ call.direction = "short"
    /\ RLt(call.exit_price, call.entry_price)
    /\ RLt(R(0), call.quantity)
    /\ RLt(R(0), result.val)

\* C3: with margin in use and equity <= 0, check_margin_call is true at every
\* margin_call_level; with equity 150, margin_used 100 and level 1 it is false.
C3_MarginCallHardFloor ==
    call.op = "check_margin_call" =>
        /\ RLt(R(0), call.margin_used) /\ RLe(call.equity, R(0)) =>
               result = RetBool(TRUE)
        /\ (call.equity = R(150) /\ call.margin_used = R(100)
               /\ margin_call_level = R(1)) =>
               result = RetBool(FALSE)

\* C3 witness: equity 0 on margin 100 at level 0, where the ratio rule alone
\* would not trigger
C3_Witness ==
    /\ call.op = "check_margin_call"
    /\ call.equity = R(0)
    /\ call.margin_used = R(100)
    /\ margin_call_level = R(0)
    /\ result = RetBool(TRUE)

\* C4: check_margin_call is false whenever margin_used <= 0 (even with
\* equity <= 0); with margin_used > 0 and equity > 0 it is true iff
\* equity / margin_used < margin_call_level.
C4_MarginCallRule ==
    call.op = "check_margin_call" =>
        /\ RLe(call.margin_used, R(0)) => result = RetBool(FALSE)
        /\ RLt(R(0), call.margin_used) /\ RLt(R(0), call.equity) =>
               (result.flag <=>
                   call.equity[1] * call.margin_used[2] * margin_call_level[2]
                       < margin_call_level[1] * call.equity[2] * call.margin_used[1])

\* C4 witness: equity 150 on margin 100 is called at level 2
C4_Witness ==
    /\ call.op = "check_margin_call"
    /\ call.equity = R(150)
    /\ call.margin_used = R(100)
    /\ margin_call_level = R(2)
    /\ result = RetBool(TRUE)

\* the market uses fixed per-contract margin (traditional futures)
UsesFixedMargin(spec) ==
    spec.asset_class = "futures" /\ spec.initial_margin_per_contract /= None

\* C5 as stated: on a fixed-margin market calculate_margin returns
\* |quantity| * intraday margin when is_intraday, else |quantity| * initial
\* margin; on every other market (entry_price * |quantity|) / leverage; the
\* sign of quantity does not matter.
C5_MarginAsStated ==
    (call.op = "calculate_margin" /\ ~IsZero(market_spec.leverage)) =>
        /\ UsesFixedMargin(market_spec) =>
               LET per_contract == IF call.is_intraday
                                   THEN market_spec.intraday_margin_per_contract
                                   ELSE market_spec.initial_margin_per_contract
               IN  /\ per_contract /= None
                   /\ result = Ret(RMul(RAbs(call.quantity), per_contract))
        /\ ~UsesFixedMargin(market_spec) =>
               result = RDiv(RMul(call.entry_price, RAbs(call.quantity)),
                             market_spec.leverage)

\* C5 amended: on a fixed-margin market calculate_margin returns
\* |quantity| * intraday margin when is_intraday and an intraday margin is
\* configured, otherwise |quantity| * initial margin; on every other market
\* (entry_price * |quantity|) / leverage (leverage non-zero); the result does
\* not depend on the sign of quantity.
C5_MarginFormula ==
    (call.op = "calculate_margin" /\ ~IsZero(market_spec.leverage)) =>
        /\ UsesFixedMargin(market_spec) =>
               LET per_contract ==
                       IF call.is_intraday
                          /\ market_spec.intraday_margin_per_contract /= None
                       THEN market_spec.intraday_margin_per_contract
                       ELSE market_spec.initial_margin_per_contract
               IN  result = Ret(RMul(RAbs(call.quantity), per_contract))
        /\ ~UsesFixedMargin(market_spec) =>
               result = RDiv(RMul(call.entry_price, RAbs(call.quantity)),
                             market_spec.leverage)
        /\ result = calculate_margin(market_spec, call.entry_price,
                                     RSub(R(0), call.quantity), call.is_intraday)

\* C5 witness: an intraday call on a fixed-margin market without an intraday
\* margin, for a short (negative) quantity
C5_Witness ==
    /\ call.op = "calculate_margin"
    /\ UsesFixedMargin(market_spec)
    /\ market_spec.intraday_margin_per_contract = None
    /\ call.is_intraday
    /\ RLt(call.quantity, R(0))
    /\ RLt(R(0), result.val)

\* the initial-margin formula of a position: the overnight initial margin
InitialMarginFormula(spec, entry_price, quantity) ==
    IF UsesFixedMargin(spec)
    THEN Ret(RMul(RAbs(quantity), spec.initial_margin_per_contract))
    ELSE RDiv(RMul(entry_price, RAbs(quantity)), spec.leverage)

C7_Rate == IF call.commission_rate = None THEN market_spec.commission_rate
           ELSE call.commission_rate

\* maximum affordable quantity: cash / (price * (1/leverage + commission_rate))
C7_MaxAffordable ==
    RDiv(call.available_cash,
         RMul(call.entry_price,
              RAdd(RDiv(R(1), market_spec.leverage).val, C7_Rate))).val

\* C7: for price > 0, leverage > 0, commission_rate >= 0 and cash >= 0, when
\* desired_quantity is at least the maximum affordable quantity,
\* adjust_quantity_for_cash returns q = cash / (price * (1/leverage +
\* commission_rate)) and price*q/leverage + price*q*commission_rate = cash.
C7_MaxAffordableRoundTrip ==
    (/\ call.op = "adjust_quantity_for_cash"
     /\ RLt(R(0), call.entry_price)
     /\ RLt(R(0), market_spec.leverage)
     /\ RLe(R(0), C7_Rate)
     /\ RLe(R(0), call.available_cash)
     /\ RLe(C7_MaxAffordable, call.desired_quantity)) =>
        /\ result = Ret(C7_MaxAffordable)
        /\ RAdd(RDiv(RMul(call.entry_price, result.val), market_spec.leverage).val,
                RMul(RMul(call.entry_price, result.val), C7_Rate))
               = call.available_cash

(***************************************************************************)
(* TrainingValidator                                                       *)
(***************************************************************************)
TestNames == {"permutation", "bootstrap", "randomized_entry"}

\* the metrics validate asks the Monte Carlo suite for
Metrics == <<"final_pnl", "sharpe_ratio", "profit_factor">>

\* dict.get(key, default)
Get(d, k, default) == IF k \in DOMAIN d THEN d[k] ELSE default

\* {**a, **b}: b's entries override a's
Merge(a, b) ==
    [k \in DOMAIN a \cup DOMAIN b |-> IF k \in DOMAIN b THEN b[k] ELSE a[k]]

\* all(d.values())
AllValues(d) == \A k \in DOMAIN d : d[k]

\* sum() over booleans
B(b) == IF b THEN 1 ELSE 0

check_backtest_quality_trades_unchecked(crit, bt_result, metrics) ==
    LET profit_factor == Get(metrics, "profit_factor", R(0))
        sharpe_ratio == Get(metrics, "sharpe_ratio", R(0))
    IN  [k \in {"min_profit_factor", "min_sharpe", "min_trades"} |->
            IF k = "min_profit_factor"
            THEN RLe(crit.training_min_profit_factor, profit_factor)
            ELSE IF k = "min_sharpe"
                 THEN RLe(crit.training_min_sharpe, sharpe_ratio)
                 ELSE bt_result.total_trades >= 0]

check_backtest_quality(crit, bt_result, metrics) ==
    LET profit_factor == Get(metrics, "profit_factor", R(0))
        sharpe_ratio == Get(metrics, "sharpe_ratio", R(0))
    IN  [k \in {"min_profit_factor", "min_sharpe", "min_trades"} |->
            IF k = "min_profit_factor"
            THEN RLe(crit.training_min_profit_factor, profit_factor)
            ELSE IF k = "min_sharpe"
                 THEN RLe(crit.training_min_sharpe, sharpe_ratio)
                 ELSE bt_result.total_trades >= crit.training_min_trades]

\* sum(1 for p in p_values.values() if p <= monte_carlo_p_value_max)
passing_metrics(p_values, p_max) ==
    Cardinality({m \in DOMAIN p_values : RLe(p_values[m], p_max)})

\* "if p_values: ... passing_metrics >= (len(p_values) / 2)"
majority_rule(p_values, p_max) ==
    IF DOMAIN p_values = {}
    THEN FALSE
    ELSE 2 * passing_metrics(p_values, p_max) >= Cardinality(DOMAIN p_values)

\* suitable_tests = [name for name, suit in test_suitability.items() if suit.suitable]
suitable_tests_of(suitability) == {t \in DOMAIN suitability : suitability[t]}

perm_pass_of(crit, mc, suitable_tests) ==
    /\ "permutation" \in suitable_tests
    /\ ~mc.permutation.skipped
    /\ majority_rule(mc.permutation.p_values, crit.monte_carlo_p_value_max)

bootstrap_pass_of(crit, mc, suitable_tests) ==
    /\ "bootstrap" \in suitable_tests
    /\ ~mc.bootstrap.skipped
    /\ majority_rule(mc.bootstrap.p_values, crit.monte_carlo_p_value_max)

\* the randomized entry result is read whatever its suitability and skipped flag
randomized_pass_of(crit, mc, suitable_tests) ==
    majority_rule(mc.randomized_entry.p_values, crit.monte_carlo_p_value_max)

\* the three pass flags at the end of _check_monte_carlo_suite_conditional
test_pass_of(crit, mc, suitability) ==
    LET suitable_tests == suitable_tests_of(suitability)
    IN  [t \in TestNames |->
            IF t = "permutation" THEN perm_pass_of(crit, mc, suitable_tests)
            ELSE IF t = "bootstrap" THEN bootstrap_pass_of(crit, mc, suitable_tests)
            ELSE randomized_pass_of(crit, mc, suitable_tests)]

individual_tests_count_all(suitable_tests, perm_pass, bootstrap_pass, randomized_pass) ==
    LET n_suitable == Cardinality(suitable_tests)
        passes == B(perm_pass) + B(bootstrap_pass) + B(randomized_pass)
    IN  IF n_suitable = 3 THEN passes >= 2
        ELSE IF n_suitable = 2 THEN passes >= 1
        ELSE IF n_suitable = 1 THEN passes >= 1
        ELSE FALSE

individual_tests(suitable_tests, perm_pass, bootstrap_pass, randomized_pass) ==
    LET n_suitable == Cardinality(suitable_tests)
    IN  IF n_suitable = 3
        THEN B(perm_pass) + B(bootstrap_pass) + B(randomized_pass) >= 2
        ELSE IF n_suitable = 2
        THEN (IF "permutation" \in suitable_tests THEN B(perm_pass) ELSE 0)
             + (IF "bootstrap" \in suitable_tests THEN B(bootstrap_pass) ELSE 0)
             + (IF "randomized_entry" \in suitable_tests THEN B(randomized_pass) ELSE 0)
             >= 1
        ELSE IF n_suitable = 1
        THEN IF "permutation" \in suitable_tests THEN perm_pass
             ELSE IF "bootstrap" \in suitable_tests THEN bootstrap_pass
             ELSE randomized_pass
        ELSE FALSE

check_monte_carlo_suite_conditional(crit, mc, suitability) ==
    LET suitable_tests == suitable_tests_of(suitability)
        perm_pass == perm_pass_of(crit, mc, suitable_tests)
        bootstrap_pass == bootstrap_pass_of(crit, mc, suitable_tests)
        randomized_pass == randomized_pass_of(crit, mc, suitable_tests)
    IN  [k \in {"mc_score", "mc_percentile", "mc_individual_tests"} |->
            IF k = "mc_score"
            THEN RLe(crit.min_mc_score, Get(mc.combined, "score", R(0)))
            ELSE IF k = "mc_percentile"
                 THEN RLe(crit.min_mc_percentile, Get(mc.combined, "percentile", R(0)))
                 ELSE individual_tests(suitable_tests, perm_pass, bootstrap_pass,
                                       randomized_pass)]

SensitivityParamNames == {"fast_length", "slow_length"}

\* f'sensitivity_{param_name}_cv'
SensitivityKey(param_name) ==
    IF param_name = "fast_length" THEN "sensitivity_fast_length_cv"
    ELSE "sensitivity_slow_length_cv"

cv_within_missing_passes(crit, analysis) ==
    \/ "coefficient_of_variation" \notin DOMAIN analysis
    \/ RLe(analysis["coefficient_of_variation"], crit.sensitivity_max_cv)

\* analysis.get('coefficient_of_variation', float('inf')) <= sensitivity_max_cv
cv_within(crit, analysis) ==
    /\ "coefficient_of_variation" \in DOMAIN analysis
    /\ RLe(analysis["coefficient_of_variation"], crit.sensitivity_max_cv)

check_sensitivity(crit, results) ==
    IF DOMAIN results = {}
    THEN EmptyDict
    ELSE LET sensitivity_analysis == Get(results, "sensitivity_analysis", EmptyDict)
             keys == {SensitivityKey(p) : p \in DOMAIN sensitivity_analysis}
         IN  [k \in keys \cup {"sensitivity_cv"} |->
                 IF k = "sensitivity_cv"
                 THEN \A p \in DOMAIN sensitivity_analysis :
                          cv_within(crit, sensitivity_analysis[p])
                 ELSE LET p == CHOOSE q \in DOMAIN sensitivity_analysis :
                                   SensitivityKey(q) = k
                      IN  cv_within(crit, sensitivity_analysis[p])]

\* a failure reason: its text, and the observed value and the threshold
\* formatted into it (None where the text carries none; the required count
\* of the individual-tests reasons is their threshold)
Reason(message, observed, threshold) ==
    [message |-> message, observed |-> observed, threshold |-> threshold]

\* format(x, '.<digits>f'): x rounded half-even to that many decimals
RECURSIVE Pow10(_)
Pow10(k) == IF k = 0 THEN 1 ELSE 10 * Pow10(k - 1)

FormatFixed(x, digits) ==
    LET scaled == Abs(x[1]) * Pow10(digits)
        q == scaled \div x[2]
        twice_rem == 2 * (scaled % x[2])
        rounded == IF twice_rem > x[2] \/ (twice_rem = x[2] /\ q % 2 = 1)
                   THEN q + 1 ELSE q
    IN  Norm((IF x[1] < 0 THEN -1 ELSE 1) * rounded, Pow10(digits))

OnlyIf(cond, reason) == IF cond THEN <<reason>> ELSE <<>>

failure_reasons_without_percentile(crit, bt_result, metrics, mc, suitability, sens_checks, all_checks) ==
    LET profit_factor == Get(metrics, "profit_factor", R(0))
        sharpe_ratio == Get(metrics, "sharpe_ratio", R(0))
        suitable_count == Cardinality(suitable_tests_of(suitability))
    IN  OnlyIf(~Get(all_checks, "min_profit_factor", TRUE),
               Reason("Training PF", FormatFixed(profit_factor, 2),
                      crit.training_min_profit_factor))
        \o OnlyIf(~Get(all_checks, "min_sharpe", TRUE),
                  Reason("Training Sharpe", FormatFixed(sharpe_ratio, 2),
                         crit.training_min_sharpe))
        \o OnlyIf(~Get(all_checks, "min_trades", TRUE),
                  Reason("Training trades", R(bt_result.total_trades),
                         R(crit.training_min_trades)))
        \o OnlyIf(~Get(all_checks, "mc_score", TRUE),
                  Reason("Monte Carlo robustness score",
                         FormatFixed(Get(mc.combined, "score", R(0)), 2),
                         crit.min_mc_score))
        \o OnlyIf(~Get(all_checks, "mc_individual_tests", TRUE),
                  IF suitable_count = 2
                  THEN Reason("Monte Carlo individual tests: Required at least 1/2",
                              None, R(1))
                  ELSE IF suitable_count = 3
                  THEN Reason("Monte Carlo individual tests: Required at least 2/3",
                              None, R(2))
                  ELSE Reason("Monte Carlo individual tests: Required suitable test(s)",
                              None, None))
        \o OnlyIf(DOMAIN sens_checks /= {} /\ ~Get(all_checks, "sensitivity_cv", TRUE),
                  Reason("Parameter sensitivity too high", None, None))

failure_reasons_of(crit, bt_result, metrics, mc, suitability, sens_checks, all_checks) ==
    LET profit_factor == Get(metrics, "profit_factor", R(0))
        sharpe_ratio == Get(metrics, "sharpe_ratio", R(0))
        suitable_count == Cardinality(suitable_tests_of(suitability))
    IN  OnlyIf(~Get(all_checks, "min_profit_factor", TRUE),
               Reason("Training PF", FormatFixed(profit_factor, 2),
                      crit.training_min_profit_factor))
        \o OnlyIf(~Get(all_checks, "min_sharpe", TRUE),
                  Reason("Training Sharpe", FormatFixed(sharpe_ratio, 2),
                         crit.training_min_sharpe))
        \o OnlyIf(~Get(all_checks, "min_trades", TRUE),
                  Reason("Training trades", R(bt_result.total_trades),
                         R(crit.training_min_trades)))
        \o OnlyIf(~Get(all_checks, "mc_score", TRUE),
                  Reason("Monte Carlo robustness score",
                         FormatFixed(Get(mc.combined, "score", R(0)), 2),
                         crit.min_mc_score))
        \o OnlyIf(~Get(all_checks, "mc_percentile", TRUE),
                  Reason("Monte Carlo percentile",
                         FormatFixed(Get(mc.combined, "percentile", R(0)), 1),
                         crit.min_mc_percentile))
        \o OnlyIf(~Get(all_checks, "mc_individual_tests", TRUE),
                  IF suitable_count = 2
                  THEN Reason("Monte Carlo individual tests: Required at least 1/2",
                              None, R(1))
                  ELSE IF suitable_count = 3
                  THEN Reason("Monte Carlo individual tests: Required at least 2/3",
                              None, R(2))
                  ELSE Reason("Monte Carlo individual tests: Required suitable test(s)",
                              None, None))
        \o OnlyIf(DOMAIN sens_checks /= {} /\ ~Get(all_checks, "sensitivity_cv", TRUE),
                  Reason("Parameter sensitivity too high", None, None))

\* the all-checks dict and the pass/fail decision of validate
all_checks_of(quality, mc, sens) == Merge(Merge(quality, mc), sens)

passed_any_quality(quality, all_checks) ==
    /\ (\E k \in DOMAIN quality : quality[k])
    /\ Get(all_checks, "mc_score", FALSE)
    /\ Get(all_checks, "mc_percentile", FALSE)
    /\ Get(all_checks, "mc_individual_tests", FALSE)

passed_sensitivity_mandatory(quality, all_checks) ==
    LET mc_individual_tests_pass == Get(all_checks, "mc_individual_tests", FALSE)
        mc_score_pass == Get(all_checks, "mc_score", FALSE)
        mc_percentile_pass == Get(all_checks, "mc_percentile", FALSE)
        quality_pass == AllValues(quality)
    IN  quality_pass /\ (mc_score_pass /\ mc_percentile_pass)
            /\ mc_individual_tests_pass /\ Get(all_checks, "sensitivity_cv", TRUE)

\* the decision without the robustness score
passed_ignoring_score(quality, all_checks) ==
    LET mc_individual_tests_pass == Get(all_checks, "mc_individual_tests", FALSE)
        mc_percentile_pass == Get(all_checks, "mc_percentile", FALSE)
        quality_pass == AllValues(quality)
    IN  quality_pass /\ mc_percentile_pass /\ mc_individual_tests_pass

passed_of(quality, all_checks) ==
    LET mc_individual_tests_pass == Get(all_checks, "mc_individual_tests", FALSE)
        mc_score_pass == Get(all_checks, "mc_score", FALSE)
        mc_percentile_pass == Get(all_checks, "mc_percentile", FALSE)
        quality_pass == AllValues(quality)
    IN  quality_pass /\ (mc_score_pass /\ mc_percentile_pass)
            /\ mc_individual_tests_pass

(***************************************************************************)
(* Inputs of the validator: the criteria it is constructed with and what   *)
(* its collaborators (backtest engine, metrics, suitability assessor,      *)
(* Monte Carlo suite, sensitivity analyzer) hand back.                     *)
(***************************************************************************)
MaxTrades == 1

CriteriaSet ==
    {[training_min_profit_factor |-> <<3, 2>>,
      training_min_sharpe |-> R(1),
      training_min_trades |-> 1,
      min_mc_score |-> R(60),
      min_mc_percentile |-> R(95),
      monte_carlo_p_value_max |-> <<1, 20>>,
      sensitivity_max_cv |-> <<3, 10>>]}

\* p-values at the threshold (1/20: passes) and above it (1/10: fails)
PValues == {<<1, 20>>, <<1, 10>>}

MetricPrefix(k) == {Metrics[i] : i \in 1..k}

\* p-value dicts over the first 0..3 metrics
PValueMaps == UNION {[MetricPrefix(k) -> PValues] : k \in 0..Len(Metrics)}

AllPass == [m \in MetricPrefix(Len(Metrics)) |-> <<1, 20>>]
AllFail == [m \in MetricPrefix(Len(Metrics)) |-> <<1, 10>>]

\* one test's result: a test that ran carries any p-values, a skipped one
\* none or a full set
TestResults ==
    {[skipped |-> FALSE, p_values |-> pv] : pv \in PValueMaps}
        \cup {[skipped |-> TRUE, p_values |-> pv] : pv \in {EmptyDict, AllPass}}

CoarseTestResults ==
    {[skipped |-> TRUE, p_values |-> EmptyDict],
     [skipped |-> FALSE, p_values |-> AllPass],
     [skipped |-> FALSE, p_values |-> AllFail]}

CombinedResults ==
    {[score |-> s, percentile |-> p] : s \in {R(50), R(60)}, p \in {R(90), R(95)}}
        \cup {EmptyDict}

McResults(tests, combineds) ==
    [permutation : tests, bootstrap : tests, randomized_entry : tests,
     combined : combineds]

EnhancedMetricsSet ==
    {[k \in {"profit_factor", "sharpe_ratio"} |->
         IF k = "profit_factor" THEN pf ELSE sh] :
         pf \in {R(1), <<299, 200>>, <<3, 2>>}, sh \in {R(0), R(1)}}
        \cup {[k \in {"sharpe_ratio"} |-> R(1)]}

ValidateArgs ==
    {[run_sensitivity |-> FALSE, sensitivity_params |-> {"fast_length"}],
     [run_sensitivity |-> TRUE, sensitivity_params |-> {}],
     [run_sensitivity |-> TRUE, sensitivity_params |-> {"fast_length"}],
     [run_sensitivity |-> TRUE, sensitivity_params |-> SensitivityParamNames]}

\* analyze_sensitivity's dict for one parameter: a coefficient of variation
\* that is stable (0) or above the maximum, or none recorded
Analyses ==
    {[k \in {"coefficient_of_variation"} |-> cv] : cv \in {R(0), <<1, 2>>}}
        \cup {EmptyDict}

EconUnused ==
    /\ market_spec = EmptyDict
    /\ margin_call_level = None
    /\ call = NoCall
    /\ result = NoResult
    /\ pc = "none"

(***************************************************************************)
(* TrainingValidator.validate, step by step                                *)
(***************************************************************************)
ValInit ==
    /\ EconUnused
    /\ NoEngine
    /\ NoRuns
    /\ criteria \in CriteriaSet
    /\ vpc = "ready"
    /\ args = EmptyDict
    /\ backtest_result = EmptyDict
    /\ enhanced_metrics = EmptyDict
    /\ quality_checks = EmptyDict
    /\ test_suitability = EmptyDict
    /\ mc_results = EmptyDict
    /\ mc_checks = EmptyDict
    /\ test_pass = EmptyDict
    /\ sensitivity_results = EmptyDict
    /\ sensitivity_checks = EmptyDict
    /\ validation_result = EmptyDict

\* validate is called: the config is validated and the strategy built
Validate ==
    /\ vpc = "ready"
    /\ args' \in ValidateArgs
    /\ vpc' = "backtest"
    /\ UNCHANGED <<live_vars, econ_vars, suite_draws, runs,
                   criteria, backtest_result, enhanced_metrics,
                   quality_checks, test_suitability, mc_results, mc_checks, test_pass,
                   sensitivity_results, sensitivity_checks, validation_result>>

\* 1. engine.run(training_data)
RunBacktest ==
    /\ vpc = "backtest"
    /\ \E n \in 0..MaxTrades : backtest_result' = [total_trades |-> n]
    /\ vpc' = "metrics"
    /\ UNCHANGED <<live_vars, econ_vars, suite_draws, runs,
                   criteria, args, enhanced_metrics,
                   quality_checks, test_suitability, mc_results, mc_checks, test_pass,
                   sensitivity_results, sensitivity_checks, validation_result>>

\* calculate_enhanced_metrics(backtest_result)
CalculateEnhancedMetrics ==
    /\ vpc = "metrics"
    /\ enhanced_metrics' \in EnhancedMetricsSet
    /\ vpc' = "quality"
    /\ UNCHANGED <<live_vars, econ_vars, suite_draws, runs,
                   criteria, args, backtest_result,
                   quality_checks, test_suitability, mc_results, mc_checks, test_pass,
                   sensitivity_results, sensitivity_checks, validation_result>>

\* the quality checks with an early exit: a failed check ends the run at
\* the aggregation
CheckBacktestQualityFailFast ==
    /\ vpc = "quality"
    /\ quality_checks' = check_backtest_quality(criteria, backtest_result,
                                                enhanced_metrics)
    /\ vpc' = IF \A k \in DOMAIN quality_checks' : quality_checks'[k]
              THEN "suitability" ELSE "combine"
    /\ UNCHANGED <<live_vars, econ_vars, suite_draws, runs,
                   criteria, args, backtest_result, enhanced_metrics,
                   test_suitability, mc_results, mc_checks, test_pass,
                   sensitivity_results, sensitivity_checks, validation_result>>

\* 2. _check_backtest_quality
CheckBacktestQuality ==
    /\ vpc = "quality"
    /\ quality_checks' = check_backtest_quality(criteria, backtest_result,
                                                enhanced_metrics)
    /\ vpc' = "suitability"
    /\ UNCHANGED <<live_vars, econ_vars, suite_draws, runs,
                   criteria, args, backtest_result, enhanced_metrics,
                   test_suitability, mc_results, mc_checks, test_pass,
                   sensitivity_results, sensitivity_checks, validation_result>>

\* 3. assess_strategy and get_test_suitability
AssessSuitability ==
    /\ vpc = "suitability"
    /\ test_suitability' \in [TestNames -> BOOLEAN]
    /\ vpc' = "monte_carlo"
    /\ UNCHANGED <<live_vars, econ_vars, suite_draws, runs,
                   criteria, args, backtest_result, enhanced_metrics,
                   quality_checks, mc_results, mc_checks, test_pass,
                   sensitivity_results, sensitivity_checks, validation_result>>

\* 4. MonteCarloSuite(seed=42).run_conditional
RunMonteCarlo ==
    /\ vpc = "monte_carlo"
    /\ mc_results' \in McResults(CoarseTestResults, CombinedResults)
    /\ vpc' = "mc_checks"
    /\ UNCHANGED <<live_vars, econ_vars, suite_draws, runs,
                   criteria, args, backtest_result, enhanced_metrics,
                   quality_checks, test_suitability, mc_checks, test_pass,
                   sensitivity_results, sensitivity_checks, validation_result>>

\* _check_monte_carlo_suite_conditional
CheckMonteCarlo ==
    /\ vpc = "mc_checks"
    /\ mc_checks' = check_monte_carlo_suite_conditional(criteria, mc_results,
                                                        test_suitability)
    /\ test_pass' = test_pass_of(criteria, mc_results, test_suitability)
    /\ vpc' = "sensitivity"
    /\ UNCHANGED <<live_vars, econ_vars, suite_draws, runs,
                   criteria, args, backtest_result, enhanced_metrics,
                   quality_checks, test_suitability, mc_results,
                   sensitivity_results, sensitivity_checks, validation_result>>

\* "if run_sensitivity and sensitivity_params": _run_sensitivity (which
\* analyses the parameters found among the columns of the grid search's
\* results) and _check_sensitivity
RunSensitivity ==
    /\ vpc = "sensitivity"
    /\ args.run_sensitivity /\ args.sensitivity_params /= {}
    /\ \E columns \in SUBSET args.sensitivity_params :
       \E analysis \in [columns -> Analyses] :
           /\ sensitivity_results' = [sensitivity_analysis |-> analysis]
           /\ sensitivity_checks' =
                  check_sensitivity(criteria, [sensitivity_analysis |-> analysis])
    /\ vpc' = "combine"
    /\ UNCHANGED <<live_vars, econ_vars, suite_draws, runs,
                   criteria, args, backtest_result, enhanced_metrics,
                   quality_checks, test_suitability, mc_results, mc_checks, test_pass,
                   validation_result>>

\* sensitivity analysis not requested: sensitivity_results = None,
\* sensitivity_checks = {}
SkipSensitivity ==
    /\ vpc = "sensitivity"
    /\ ~(args.run_sensitivity /\ args.sensitivity_params /= {})
    /\ vpc' = "combine"
    /\ UNCHANGED <<live_vars, econ_vars, suite_draws, runs,
                   criteria, args, backtest_result, enhanced_metrics,
                   quality_checks, test_suitability, mc_results, mc_checks, test_pass,
                   sensitivity_results, sensitivity_checks, validation_result>>

\* combine all checks, decide, collect the failure reasons and return
Combine ==
    /\ vpc = "combine"
    /\ LET all_checks == all_checks_of(quality_checks, mc_checks, sensitivity_checks)
       IN  validation_result' =
               [passed |-> passed_of(quality_checks, all_checks),
                criteria_checks |-> all_checks,
                failure_reasons |->
                    failure_reasons_of(criteria, backtest_result, enhanced_metrics,
                                       mc_results, test_suitability,
                                       sensitivity_checks, all_checks)]
    /\ vpc' = "done"
    /\ UNCHANGED <<live_vars, econ_vars, suite_draws, runs,
                   criteria, args, backtest_result, enhanced_metrics,
                   quality_checks, test_suitability, mc_results, mc_checks, test_pass,
                   sensitivity_results, sensitivity_checks>>

ValNext ==
    \/ Validate
    \/ RunBacktest
    \/ CalculateEnhancedMetrics
    \/ CheckBacktestQuality
    \/ AssessSuitability
    \/ RunMonteCarlo
    \/ CheckMonteCarlo
    \/ RunSensitivity
    \/ SkipSensitivity
    \/ Combine

SpecValidate == ValInit /\ [][ValNext]_vars

(***************************************************************************)
(* _check_monte_carlo_suite_conditional called on its own, on any suite    *)
(* result and suitability.                                                 *)
(***************************************************************************)
McInit ==
    /\ EconUnused
    /\ NoEngine
    /\ NoRuns
    /\ criteria \in CriteriaSet
    /\ vpc = "unit"
    /\ args = EmptyDict
    /\ backtest_result = EmptyDict
    /\ enhanced_metrics = EmptyDict
    /\ quality_checks = EmptyDict
    /\ test_suitability = EmptyDict
    /\ mc_results = EmptyDict
    /\ mc_checks = EmptyDict
    /\ test_pass = EmptyDict
    /\ sensitivity_results = EmptyDict
    /\ sensitivity_checks = EmptyDict
    /\ validation_result = EmptyDict

CheckMonteCarloSuiteConditional ==
    /\ vpc = "unit"
    /\ \E suitability \in [TestNames -> BOOLEAN],
          mc \in McResults(TestResults,
                           {c \in CombinedResults : c /= EmptyDict}) :
           /\ test_suitability' = suitability
           /\ mc_results' = mc
           /\ mc_checks' = check_monte_carlo_suite_conditional(criteria, mc, suitability)
           /\ test_pass' = test_pass_of(criteria, mc, suitability)
    /\ vpc' = "unit_done"
    /\ UNCHANGED <<live_vars, econ_vars, suite_draws, runs,
                   criteria, args, backtest_result, enhanced_metrics,
                   quality_checks, sensitivity_results, sensitivity_checks,
                   validation_result>>

McNext == CheckMonteCarloSuiteConditional

SpecMC == McInit /\ [][McNext]_vars

(***************************************************************************)
(* Properties of the validation decision.                                  *)
(***************************************************************************)
\* the values validate reads: a metric missing from a dict counts as 0.0
ObservedProfitFactor == Get(enhanced_metrics, "profit_factor", R(0))
ObservedSharpe == Get(enhanced_metrics, "sharpe_ratio", R(0))
ObservedScore == Get(mc_results.combined, "score", R(0))
ObservedPercentile == Get(mc_results.combined, "percentile", R(0))

\* C8 (SpecValidate): validate returns passed = true iff profit_factor >=
\* min profit factor, sharpe >= min Sharpe, total_trades >= min trades,
\* combined.score >= min MC score, combined.percentile >= min MC percentile
\* (all inclusive) and the mc_individual_tests check is true.
C8_PassedIffAllChecks ==
    vpc = "done" =>
        (validation_result.passed <=>
            /\ RLe(criteria.training_min_profit_factor, ObservedProfitFactor)
            /\ RLe(criteria.training_min_sharpe, ObservedSharpe)
            /\ backtest_result.total_trades >= criteria.training_min_trades
            /\ RLe(criteria.min_mc_score, ObservedScore)
            /\ RLe(criteria.min_mc_percentile, ObservedPercentile)
            /\ mc_checks["mc_individual_tests"])

\* C8 witness: a run that passes with every observed value exactly at its
\* threshold
C8_Witness ==
    /\ vpc = "done"
    /\ validation_result.passed
    /\ ObservedProfitFactor = criteria.training_min_profit_factor
    /\ ObservedSharpe = criteria.training_min_sharpe
    /\ backtest_result.total_trades = criteria.training_min_trades
    /\ ObservedScore = criteria.min_mc_score
    /\ ObservedPercentile = criteria.min_mc_percentile

\* number of p-values of a test result that are <= monte_carlo_p_value_max
PassingCount(t) ==
    Cardinality({m \in DOMAIN mc_results[t].p_values :
                    RLe(mc_results[t].p_values[m], criteria.monte_carlo_p_value_max)})

\* C9 (SpecMC): a test counts as passed only if strictly more than half of
\* its p-values are <= monte_carlo_p_value_max; an exact half does not pass
\* and a test with no p-values does not pass.
C9_StrictMajority ==
    vpc = "unit_done" =>
        \A t \in TestNames :
            test_pass[t] =>
                2 * PassingCount(t) > Cardinality(DOMAIN mc_results[t].p_values)

SuitableTests == {t \in TestNames : test_suitability[t]}

\* number of suitable tests that passed
SuitablePasses == Cardinality({t \in SuitableTests : test_pass[t]})

\* C10 (SpecMC): with n suitable tests, mc_individual_tests is: n = 3 ->
\* at least 2 of the 3 passed; n = 2 -> at least 1 of the 2 suitable tests
\* passed; n = 1 -> the suitable test passed; n = 0 -> false.  Only suitable
\* tests' passes count.
C10_IndividualTestsRule ==
    vpc = "unit_done" =>
        LET n == Cardinality(SuitableTests)
        IN  mc_checks["mc_individual_tests"] <=>
                \/ n = 3 /\ SuitablePasses >= 2
                \/ n = 2 /\ SuitablePasses >= 1
                \/ n = 1 /\ SuitablePasses = 1

\* C10 witness: two suitable tests that both failed, while the unsuitable
\* randomized entry test has passing p-values: the check is false
C10_Witness ==
    /\ vpc = "unit_done"
    /\ SuitableTests = {"permutation", "bootstrap"}
    /\ ~test_pass["permutation"]
    /\ ~test_pass["bootstrap"]
    /\ test_pass["randomized_entry"]
    /\ ~mc_checks["mc_individual_tests"]

\* the pass flag of a test once a skipped test is left out of the decision
RanAndPassed(t) == test_pass[t] /\ ~mc_results[t].skipped

\* C11 (SpecMC): a test whose result is flagged skipped never counts as a
\* passed test towards mc_individual_tests, whatever p-values it carries: the
\* check is what the rule gives with every skipped test counted as not passed.
C11_SkippedExcluded ==
    vpc = "unit_done" =>
        mc_checks["mc_individual_tests"] =
            individual_tests(SuitableTests, RanAndPassed("permutation"),
                             RanAndPassed("bootstrap"),
                             RanAndPassed("randomized_entry"))

\* the reasons validate returned, by their leading text
ReasonMessages ==
    {validation_result.failure_reasons[i].message :
         i \in DOMAIN validation_result.failure_reasons}

\* C12 (SpecValidate): a run whose backtest produced zero trades, with a
\* minimum-trades threshold of at least 1, returns passed = false and the
\* min_trades failure among its failure_reasons, whatever the other metrics
\* and Monte Carlo results are.
C12_ZeroTradesFails ==
    (/\ vpc = "done"
     /\ backtest_result.total_trades = 0
     /\ criteria.training_min_trades >= 1) =>
        /\ ~validation_result.passed
        /\ ~validation_result.criteria_checks["min_trades"]
        /\ \E i \in DOMAIN validation_result.failure_reasons :
               validation_result.failure_reasons[i] =
                   Reason("Training trades", R(0), R(criteria.training_min_trades))

\* C12 witness: a zero-trade run in which every other check is true
C12_Witness ==
    /\ vpc = "done"
    /\ backtest_result.total_trades = 0
    /\ criteria.training_min_trades >= 1
    /\ \A k \in DOMAIN validation_result.criteria_checks :
           k /= "min_trades" => validation_result.criteria_checks[k]
    /\ "sensitivity_cv" \in DOMAIN validation_result.criteria_checks
    /\ ReasonMessages = {"Training trades"}

\* the checks whose reason carries the observed value and the threshold
ValuedChecks ==
    {"min_profit_factor", "min_sharpe", "min_trades", "mc_score", "mc_percentile"}

\* the text validate's reason for a failed check starts with
MessagesOf(k) ==
    IF k = "min_profit_factor" THEN {"Training PF"}
    ELSE IF k = "min_sharpe" THEN {"Training Sharpe"}
    ELSE IF k = "min_trades" THEN {"Training trades"}
    ELSE IF k = "mc_score" THEN {"Monte Carlo robustness score"}
    ELSE IF k = "mc_percentile" THEN {"Monte Carlo percentile"}
    ELSE IF k = "mc_individual_tests"
    THEN {"Monte Carlo individual tests: Required at least 1/2",
          "Monte Carlo individual tests: Required at least 2/3",
          "Monte Carlo individual tests: Required suitable test(s)"}
    ELSE IF k = "sensitivity_cv" THEN {"Parameter sensitivity too high"}
    ELSE {}

\* the reasons returned for check k
ReasonsOf(k) ==
    {i \in DOMAIN validation_result.failure_reasons :
         validation_result.failure_reasons[i].message \in MessagesOf(k)}

\* the observed value of a valued check as validate prints it, and its threshold
PrintedValue(k) ==
    IF k = "min_profit_factor" THEN FormatFixed(ObservedProfitFactor, 2)
    ELSE IF k = "min_sharpe" THEN FormatFixed(ObservedSharpe, 2)
    ELSE IF k = "min_trades" THEN R(backtest_result.total_trades)
    ELSE IF k = "mc_score" THEN FormatFixed(ObservedScore, 2)
    ELSE FormatFixed(ObservedPercentile, 1)

ThresholdOf(k) ==
    IF k = "min_profit_factor" THEN criteria.training_min_profit_factor
    ELSE IF k = "min_sharpe" THEN criteria.training_min_sharpe
    ELSE IF k = "min_trades" THEN R(criteria.training_min_trades)
    ELSE IF k = "mc_score" THEN criteria.min_mc_score
    ELSE criteria.min_mc_percentile

FailedChecks ==
    {k \in DOMAIN validation_result.criteria_checks :
         ~validation_result.criteria_checks[k]}

\* C13 as stated (SpecValidate): every check recorded false in criteria_checks
\* has one reason in failure_reasons, and that reason carries both an
\* observed value and a threshold.
C13_ReasonPerFailedCheck ==
    vpc = "done" =>
        \A k \in FailedChecks :
            /\ Cardinality(ReasonsOf(k)) = 1
            /\ \A i \in ReasonsOf(k) :
                   /\ validation_result.failure_reasons[i].observed /= None
                   /\ validation_result.failure_reasons[i].threshold /= None

\* C13 amended (SpecValidate): each failed quality, mc_score or mc_percentile
\* check has exactly one reason, carrying the observed value as printed
\* (two decimals, one for the percentile, the trade count as it is) and the
\* threshold; a failed mc_individual_tests has exactly one reason, without an
\* observed value; a failed overall sensitivity check has exactly one reason,
\* without observed value or threshold; a failed per-parameter sensitivity
\* check has no reason of its own; a check that is true has no reason.
C13_ReasonsRule ==
    vpc = "done" =>
        /\ \A k \in FailedChecks \cap ValuedChecks :
               /\ Cardinality(ReasonsOf(k)) = 1
               /\ \A i \in ReasonsOf(k) :
                      /\ validation_result.failure_reasons[i].observed = PrintedValue(k)
                      /\ validation_result.failure_reasons[i].threshold = ThresholdOf(k)
        /\ "mc_individual_tests" \in FailedChecks =>
               /\ Cardinality(ReasonsOf("mc_individual_tests")) = 1
               /\ \A i \in ReasonsOf("mc_individual_tests") :
                      validation_result.failure_reasons[i].observed = None
        /\ "sensitivity_cv" \in FailedChecks =>
               /\ Cardinality(ReasonsOf("sensitivity_cv")) = 1
               /\ \A i \in ReasonsOf("sensitivity_cv") :
                      /\ validation_result.failure_reasons[i].observed = None
                      /\ validation_result.failure_reasons[i].threshold = None
        /\ Len(validation_result.failure_reasons) =
               Cardinality(FailedChecks \cap
                   (ValuedChecks \cup {"mc_individual_tests", "sensitivity_cv"}))

\* C13 witness: every check failed, with a per-parameter sensitivity check
\* among them and a profit factor that its reason prints rounded
C13_Witness ==
    /\ vpc = "done"
    /\ FailedChecks = DOMAIN validation_result.criteria_checks
    /\ "sensitivity_fast_length_cv" \in FailedChecks
    /\ ObservedProfitFactor /= FormatFixed(ObservedProfitFactor, 2)
    /\ Len(validation_result.failure_reasons) = 7

\* the reasons that are not about sensitivity, in order
RECURSIVE WithoutSensitivity(_)
WithoutSensitivity(reasons) ==
    IF reasons = <<>> THEN <<>>
    ELSE IF Head(reasons).message = "Parameter sensitivity too high"
         THEN WithoutSensitivity(Tail(reasons))
         ELSE <<Head(reasons)>> \o WithoutSensitivity(Tail(reasons))

\* what validate returns on the same quality and Monte Carlo results when
\* sensitivity analysis is not run
WithoutSensitivityRun ==
    LET all_checks == all_checks_of(quality_checks, mc_checks, EmptyDict)
    IN  [passed |-> passed_of(quality_checks, all_checks),
         criteria_checks |-> all_checks,
         failure_reasons |->
             failure_reasons_of(criteria, backtest_result, enhanced_metrics,
                                mc_results, test_suitability, EmptyDict, all_checks)]

\* C14 (SpecValidate): the sensitivity outcome is advisory: passed is what it
\* is on the same quality and Monte Carlo checks without sensitivity
\* analysis, whether sensitivity was not run, passed or failed; sensitivity
\* only adds its own entries to criteria_checks and, when failing, its
\* reason to failure_reasons.
C14_SensitivityAdvisory ==
    vpc = "done" =>
        LET without == WithoutSensitivityRun
        IN  /\ validation_result.passed = without.passed
            /\ validation_result.passed =
                   (AllValues(quality_checks) /\ AllValues(mc_checks))
            /\ \A k \in DOMAIN without.criteria_checks :
                   /\ k \in DOMAIN validation_result.criteria_checks
                   /\ validation_result.criteria_checks[k] = without.criteria_checks[k]
            /\ DOMAIN validation_result.criteria_checks
                   \ DOMAIN without.criteria_checks
                   = DOMAIN sensitivity_checks
            /\ WithoutSensitivity(validation_result.failure_reasons) =
                   without.failure_reasons

\* C14 witness: a run that passes although its sensitivity check failed
C14_Witness ==
    /\ vpc = "done"
    /\ validation_result.passed
    /\ "sensitivity_cv" \in DOMAIN validation_result.criteria_checks
    /\ ~validation_result.criteria_checks["sensitivity_cv"]
    /\ Len(validation_result.failure_reasons) = 1

(***************************************************************************)
(* _check_sensitivity called on its own, on any sensitivity results and    *)
(* any maximum coefficient of variation.                                   *)
(***************************************************************************)
MaxCvTenths == 4

\* coefficients of variation and thresholds 0, 0.1, ...
CvValues == {Norm(n, 10) : n \in 0..MaxCvTenths}

SensCriteria ==
    {[c EXCEPT !.sensitivity_max_cv = t] : c \in CriteriaSet, t \in CvValues}

SensAnalyses ==
    {[k \in {"coefficient_of_variation"} |-> cv] : cv \in CvValues} \cup {EmptyDict}

SensInit ==
    /\ EconUnused
    /\ NoEngine
    /\ NoRuns
    /\ criteria \in SensCriteria
    /\ vpc = "sens_unit"
    /\ args = EmptyDict
    /\ backtest_result = EmptyDict
    /\ enhanced_metrics = EmptyDict
    /\ quality_checks = EmptyDict
    /\ test_suitability = EmptyDict
    /\ mc_results = EmptyDict
    /\ mc_checks = EmptyDict
    /\ test_pass = EmptyDict
    /\ sensitivity_results = EmptyDict
    /\ sensitivity_checks = EmptyDict
    /\ validation_result = EmptyDict

CheckSensitivity ==
    /\ vpc = "sens_unit"
    /\ \E results \in {EmptyDict} \cup
                      {[sensitivity_analysis |-> a] :
                           a \in UNION {[ps -> SensAnalyses] :
                                            ps \in SUBSET SensitivityParamNames}} :
           /\ sensitivity_results' = results
           /\ sensitivity_checks' = check_sensitivity(criteria, results)
    /\ vpc' = "sens_unit_done"
    /\ UNCHANGED <<live_vars, econ_vars, suite_draws, runs,
                   criteria, args, backtest_result, enhanced_metrics,
                   quality_checks, test_suitability, mc_results, mc_checks,
                   test_pass, validation_result>>

SensNext == CheckSensitivity

SpecSens == SensInit /\ [][SensNext]_vars

\* the analyses _check_sensitivity was given
AnalysedParams == DOMAIN sensitivity_results.sensitivity_analysis

HasCv(p) ==
    "coefficient_of_variation" \in DOMAIN sensitivity_results.sensitivity_analysis[p]

CvOf(p) == sensitivity_results.sensitivity_analysis[p]["coefficient_of_variation"]

\* C15 (SpecSens): sensitivity_cv is true iff every analysed parameter's
\* coefficient of variation is <= sensitivity_max_cv, equivalently iff every
\* per-parameter sensitivity_<param>_cv check is true; a parameter whose CV
\* is 0 passes under any positive threshold; a parameter with no CV recorded
\* fails.
C15_SensitivityCheck ==
    (vpc = "sens_unit_done" /\ sensitivity_results /= EmptyDict) =>
        /\ DOMAIN sensitivity_checks =
               {SensitivityKey(p) : p \in AnalysedParams} \cup {"sensitivity_cv"}
        /\ sensitivity_checks["sensitivity_cv"] <=>
               \A p \in AnalysedParams :
                   HasCv(p) /\ RLe(CvOf(p), criteria.sensitivity_max_cv)
        /\ sensitivity_checks["sensitivity_cv"] <=>
               \A p \in AnalysedParams : sensitivity_checks[SensitivityKey(p)]
        /\ \A p \in AnalysedParams :
               /\ (HasCv(p) /\ CvOf(p) = R(0)
                       /\ RLt(R(0), criteria.sensitivity_max_cv)) =>
                      sensitivity_checks[SensitivityKey(p)]
               /\ ~HasCv(p) =>
                      /\ ~sensitivity_checks[SensitivityKey(p)]
                      /\ ~sensitivity_checks["sensitivity_cv"]

\* C15 witness: one parameter is stable (CV 0) and passes, the other has no
\* CV recorded and fails the overall check
C15_Witness ==
    /\ vpc = "sens_unit_done"
    /\ sensitivity_results /= EmptyDict
    /\ AnalysedParams = SensitivityParamNames
    /\ HasCv("fast_length") /\ CvOf("fast_length") = R(0)
    /\ ~HasCv("slow_length")
    /\ RLt(R(0), criteria.sensitivity_max_cv)
    /\ sensitivity_checks["sensitivity_fast_length_cv"]
    /\ ~sensitivity_checks["sensitivity_cv"]

(***************************************************************************)
(* LiveTradingEngine.process_signal, one step per execution-adapter call.  *)
(* The adapter is outside the engine: each call either fails (raises) or   *)
(* returns one of a few values.                                            *)
(***************************************************************************)
MaxLiveTrades == 2
MaxStopOrders == 2

\* the engine is constructed with a round starting capital
initial_capital == 100
max_daily_loss_pct == 5
max_drawdown_pct == 15

\* never reassigned after __init__
daily_start_balance == initial_capital

\* self.symbol, and the symbol of a position that get_positions may hand
\* back besides it
Symbol == "SYM"
OtherSymbol == "OTH"

\* the order in which the dicts of the engine are walked
SymbolOrder == <<Symbol, OtherSymbol>>

\* the MarketSpec the engine is constructed with: a leverage-based market
LiveMarketSpecs ==
    [asset_class : {"crypto"},
     leverage : {R(0), R(1)},
     commission_rate : {R(0)},
     initial_margin_per_contract : {None},
     intraday_margin_per_contract : {None},
     maintenance_margin_rate : {None}]

NoAction == ""
SignalActions == {NoAction, "BUY", "SELL", "CLOSE", "UPDATE_STOP", "HOLD"}

\* quantity and stop_price: 0 stands for a missing (None) or zero value, both
\* falsy in "not quantity" and "if stop_price"
Signals == [action : SignalActions, quantity : {0, 1}, stop_price : {0, 1}]

NoSignal == [action |-> NoAction, quantity |-> 0, stop_price |-> 0]

\* current_price: at leverage 1 the margin of quantity 1 is the price
LivePrices == {10, 60}

\* balance.total_balance: a daily loss of 10%, a loss of 4%, a new peak
TotalBalances == {90, 96, 120}
AvailableBalances == {0, 50}

\* what get_positions hands back: at most one position of the symbol, with
\* a size that may be below the 0.0001 the engine keeps, and at most one
\* position of another symbol
AdapterPositions ==
    LET own == {[symbol |-> Symbol, side |-> sd, size |-> sz] :
                    sd \in {"LONG", "SHORT"}, sz \in {0, 1}}
        other == [symbol |-> OtherSymbol, side |-> "LONG", size |-> 1]
    IN  {<<>>, <<other>>} \cup {<<p>> : p \in own} \cup {<<p, other>> : p \in own}

Called(name, ok) == [name |-> name, ok |-> ok]

\* an order call as the adapter sees it; order_id is the id of the stop
\* order that was placed or that was to be cancelled, 0 when there is none
OrderCall(name, ok, symbol, quantity, reduce_only, order_id) ==
    [name |-> name, ok |-> ok, symbol |-> symbol, quantity |-> quantity,
     reduce_only |-> reduce_only, order_id |-> order_id]

\* the fields of the engine
EngineFields ==
    [trades_executed |-> trades_executed,
     trades_skipped |-> trades_skipped,
     active_positions |-> active_positions,
     active_stop_orders |-> active_stop_orders,
     peak_equity |-> peak_equity]

LiveInit ==
    /\ criteria = EmptyDict
    /\ NoValidation
    /\ market_spec \in LiveMarketSpecs
    /\ margin_call_level = None
    /\ call = NoCall
    /\ result = NoResult
    /\ pc = "none"
    /\ trades_executed = 0
    /\ trades_skipped = 0
    /\ active_positions = EmptyDict
    /\ active_stop_orders = EmptyDict
    /\ peak_equity = initial_capital
    /\ signal = NoSignal
    /\ live_price = 0
    /\ lpc = "idle"
    /\ should_stop = FALSE
    /\ current_equity = 0
    /\ available_balance = 0
    /\ margin_required = None
    /\ last_call = Called("none", TRUE)
    /\ calls = <<>>
    /\ before = [trades_executed |-> 0, trades_skipped |-> 0,
                 active_positions |-> EmptyDict, active_stop_orders |-> EmptyDict,
                 peak_equity |-> initial_capital]
    /\ stops_placed = 0
    /\ cancelled = {}

\* process_signal is entered: "if not action: return"
ProcessSignal ==
    /\ lpc = "idle"
    /\ trades_executed + trades_skipped < MaxLiveTrades
    /\ stops_placed < MaxStopOrders
    /\ signal' \in Signals
    /\ live_price' \in LivePrices
    /\ before' = EngineFields
    /\ lpc' = IF signal'.action = NoAction THEN "returned" ELSE "safety"
    /\ UNCHANGED <<econ_vars, val_vars, trades_executed, trades_skipped,
                   active_positions, active_stop_orders, peak_equity, should_stop,
                   current_equity, available_balance, margin_required, last_call,
                   calls, stops_placed, cancelled>>

\* check_safety_limits: get_account_balance, the daily loss and the drawdown
CheckSafetyLimitsUnheeded ==
    /\ lpc = "safety"
    /\ \/ /\ last_call' = Called("get_account_balance", FALSE)
          /\ lpc' = "raised"
          /\ UNCHANGED <<peak_equity, should_stop, current_equity>>
       \/ \E equity \in TotalBalances :
              /\ last_call' = Called("get_account_balance", TRUE)
              /\ current_equity' = equity
              /\ IF (daily_start_balance - equity) * 100
                        >= max_daily_loss_pct * daily_start_balance
                 THEN /\ should_stop' = TRUE
                      /\ UNCHANGED peak_equity
                 ELSE /\ peak_equity' = IF equity > peak_equity
                                        THEN equity ELSE peak_equity
                      /\ should_stop' = ((peak_equity' - equity) * 100
                                             >= max_drawdown_pct * peak_equity')
              /\ lpc' = "positions"
    /\ UNCHANGED <<econ_vars, val_vars, trades_executed, trades_skipped,
                   active_positions, active_stop_orders, signal, live_price,
                   available_balance, margin_required, calls, before,
                   stops_placed, cancelled>>

CheckSafetyLimits ==
    /\ lpc = "safety"
    /\ \/ /\ last_call' = Called("get_account_balance", FALSE)
          /\ lpc' = "raised"
          /\ UNCHANGED <<peak_equity, should_stop, current_equity>>
       \/ \E equity \in TotalBalances :
              /\ last_call' = Called("get_account_balance", TRUE)
              /\ current_equity' = equity
              /\ IF (daily_start_balance - equity) * 100
                        >= max_daily_loss_pct * daily_start_balance
                 THEN /\ should_stop' = TRUE
                      /\ UNCHANGED peak_equity
                 ELSE /\ peak_equity' = IF equity > peak_equity
                                        THEN equity ELSE peak_equity
                      /\ should_stop' = ((peak_equity' - equity) * 100
                                             >= max_drawdown_pct * peak_equity')
              /\ lpc' = IF should_stop' THEN "returned" ELSE "positions"
    /\ UNCHANGED <<econ_vars, val_vars, trades_executed, trades_skipped,
                   active_positions, active_stop_orders, signal, live_price,
                   available_balance, margin_required, calls, before,
                   stops_placed, cancelled>>

\* update_positions: get_positions, then the dispatch on the action
UpdatePositions ==
    /\ lpc = "positions"
    /\ \/ /\ last_call' = Called("get_positions", FALSE)
          /\ lpc' = "raised"
          /\ UNCHANGED active_positions
       \/ \E positions \in AdapterPositions :
              /\ last_call' = Called("get_positions", TRUE)
              /\ active_positions' =
                     [s \in {positions[i].symbol :
                                 i \in {k \in DOMAIN positions : positions[k].size > 0}} |->
                         CHOOSE pos \in {positions[i] : i \in DOMAIN positions} :
                             pos.symbol = s]
              /\ lpc' = IF signal.action = "CLOSE" THEN "close_positions"
                        ELSE IF signal.action \in {"BUY", "SELL"} THEN "entry"
                        ELSE IF signal.action = "UPDATE_STOP" THEN "update_stop"
                        ELSE "returned"
    /\ UNCHANGED <<econ_vars, val_vars, trades_executed, trades_skipped,
                   active_stop_orders, peak_equity, signal, live_price,
                   should_stop, current_equity, available_balance, margin_required,
                   calls, before, stops_placed, cancelled>>

\* _process_entry_signal up to its balance query: the quantity and the
\* existing position
ProcessEntrySignal ==
    /\ lpc = "entry"
    /\ IF signal.quantity <= 0
       THEN /\ lpc' = "returned"
            /\ UNCHANGED trades_skipped
       ELSE IF Symbol \in DOMAIN active_positions
       THEN /\ trades_skipped' = trades_skipped + 1
            /\ lpc' = "returned"
       ELSE /\ lpc' = "entry_balance"
            /\ UNCHANGED trades_skipped
    /\ UNCHANGED <<econ_vars, val_vars, trades_executed, active_positions,
                   active_stop_orders, peak_equity, signal, live_price,
                   should_stop, current_equity, available_balance, margin_required,
                   last_call, calls, before, stops_placed, cancelled>>

\* the entry check without the margin: any positive balance will do
CheckEntryBalanceOnly ==
    /\ lpc = "entry_balance"
    /\ \/ /\ last_call' = Called("get_account_balance", FALSE)
          /\ lpc' = "raised"
          /\ UNCHANGED <<trades_skipped, available_balance, margin_required>>
       \/ \E available \in AvailableBalances :
              LET margin == calculate_margin(market_spec, R(live_price),
                                             R(signal.quantity), TRUE)
              IN  /\ last_call' = Called("get_account_balance", TRUE)
                  /\ available_balance' = available
                  /\ IF available <= 0
                     THEN /\ trades_skipped' = trades_skipped + 1
                          /\ lpc' = "returned"
                          /\ UNCHANGED margin_required
                     ELSE IF margin.raised
                     THEN /\ lpc' = "raised"
                          /\ UNCHANGED <<trades_skipped, margin_required>>
                     ELSE /\ margin_required' = margin.val
                          /\ lpc' = "place_entry"
                          /\ UNCHANGED trades_skipped
    /\ UNCHANGED <<econ_vars, val_vars, trades_executed, active_positions,
                   active_stop_orders, peak_equity, signal, live_price,
                   should_stop, current_equity, calls, before, stops_placed,
                   cancelled>>

\* get_account_balance and the balance and margin checks of the entry
CheckEntryBalance ==
    /\ lpc = "entry_balance"
    /\ \/ /\ last_call' = Called("get_account_balance", FALSE)
          /\ lpc' = "raised"
          /\ UNCHANGED <<trades_skipped, available_balance, margin_required>>
       \/ \E available \in AvailableBalances :
              LET margin == calculate_margin(market_spec, R(live_price),
                                             R(signal.quantity), TRUE)
              IN  /\ last_call' = Called("get_account_balance", TRUE)
                  /\ available_balance' = available
                  /\ IF available <= 0
                     THEN /\ trades_skipped' = trades_skipped + 1
                          /\ lpc' = "returned"
                          /\ UNCHANGED margin_required
                     ELSE IF margin.raised
                     THEN /\ lpc' = "raised"
                          /\ UNCHANGED <<trades_skipped, margin_required>>
                     ELSE /\ margin_required' = margin.val
                          /\ IF RLt(R(available), margin.val)
                             THEN /\ trades_skipped' = trades_skipped + 1
                                  /\ lpc' = "returned"
                             ELSE /\ lpc' = "place_entry"
                                  /\ UNCHANGED trades_skipped
    /\ UNCHANGED <<econ_vars, val_vars, trades_executed, active_positions,
                   active_stop_orders, peak_equity, signal, live_price,
                   should_stop, current_equity, calls, before, stops_placed,
                   cancelled>>

\* the try block of _process_entry_signal: place_market_order
PlaceEntryOrder ==
    /\ lpc = "place_entry"
    /\ \/ /\ last_call' = Called("place_market_order", FALSE)
          /\ calls' = Append(calls, OrderCall("place_market_order", FALSE, Symbol,
                                              signal.quantity, FALSE, 0))
          /\ trades_skipped' = trades_skipped + 1
          /\ lpc' = "returned"
          /\ UNCHANGED trades_executed
       \/ /\ last_call' = Called("place_market_order", TRUE)
          /\ calls' = Append(calls, OrderCall("place_market_order", TRUE, Symbol,
                                              signal.quantity, FALSE, 0))
          /\ trades_executed' = trades_executed + 1
          /\ lpc' = IF signal.stop_price /= 0 THEN "place_stop" ELSE "returned"
          /\ UNCHANGED trades_skipped
    /\ UNCHANGED <<econ_vars, val_vars, active_positions, active_stop_orders,
                   peak_equity, signal, live_price, should_stop, current_equity,
                   available_balance, margin_required, before, stops_placed,
                   cancelled>>

\* _place_stop_loss: the adapter numbers the stop orders it accepts
PlaceStopLoss ==
    /\ lpc = "place_stop"
    /\ \/ /\ last_call' = Called("place_stop_market_order", FALSE)
          /\ calls' = Append(calls, OrderCall("place_stop_market_order", FALSE,
                                              Symbol, signal.quantity, TRUE, 0))
          /\ UNCHANGED <<active_stop_orders, stops_placed>>
       \/ /\ last_call' = Called("place_stop_market_order", TRUE)
          /\ stops_placed' = stops_placed + 1
          /\ calls' = Append(calls, OrderCall("place_stop_market_order", TRUE,
                                              Symbol, signal.quantity, TRUE,
                                              stops_placed'))
          /\ active_stop_orders' =
                 Merge(active_stop_orders, [s \in {Symbol} |-> stops_placed'])
    /\ lpc' = "returned"
    /\ UNCHANGED <<econ_vars, val_vars, trades_executed, trades_skipped,
                   active_positions, peak_equity, signal, live_price,
                   should_stop, current_equity, available_balance, margin_required,
                   before, cancelled>>

\* the keys of a dict of the engine in the order a for loop visits them
Walk(d) == SelectSeq(SymbolOrder, LAMBDA s : s \in DOMAIN d)

\* the close order of every position up to the one at index n of the walk
CloseCalls(oks, n) ==
    [i \in 1..n |->
        LET s == Walk(active_positions)[i]
        IN  OrderCall("place_market_order", oks[s], s, active_positions[s].size,
                      TRUE, 0)]

\* the cancel call of every stop order
CancelCalls(oks) ==
    [i \in 1..Len(Walk(active_stop_orders)) |->
        LET s == Walk(active_stop_orders)[i]
        IN  OrderCall("cancel_order", oks[s], s, 0, FALSE, active_stop_orders[s])]

\* a first loop that gives up at the first order the adapter refuses
ClosePositionsUntilFailure ==
    /\ lpc = "close_positions"
    /\ \E oks \in [DOMAIN active_positions -> BOOLEAN] :
           LET walk == Walk(active_positions)
               failed == {i \in 1..Len(walk) : ~oks[walk[i]]}
               n == IF failed = {} THEN Len(walk)
                    ELSE CHOOSE i \in failed : \A j \in failed : i <= j
           IN  /\ calls' = calls \o CloseCalls(oks, n)
               /\ last_call' = IF walk = <<>> THEN last_call
                               ELSE Called("place_market_order", oks[walk[n]])
    /\ lpc' = "close_stops"
    /\ UNCHANGED <<econ_vars, val_vars, trades_executed, trades_skipped,
                   active_positions, active_stop_orders, peak_equity, signal,
                   live_price, should_stop, current_equity, available_balance,
                   margin_required, before, stops_placed, cancelled>>

\* _close_all_positions, first loop: a reduce-only market order per active
\* position, each in its own try
ClosePositions ==
    /\ lpc = "close_positions"
    /\ \E oks \in [DOMAIN active_positions -> BOOLEAN] :
           LET walk == Walk(active_positions)
               n == Len(walk)
           IN  /\ calls' = calls \o CloseCalls(oks, n)
               /\ last_call' = IF walk = <<>> THEN last_call
                               ELSE Called("place_market_order", oks[walk[n]])
    /\ lpc' = "close_stops"
    /\ UNCHANGED <<econ_vars, val_vars, trades_executed, trades_skipped,
                   active_positions, active_stop_orders, peak_equity, signal,
                   live_price, should_stop, current_equity, available_balance,
                   margin_required, before, stops_placed, cancelled>>

\* _close_all_positions, second loop and the two clear() calls
CancelStopOrders ==
    /\ lpc = "close_stops"
    /\ \E oks \in [DOMAIN active_stop_orders -> BOOLEAN] :
           LET walk == Walk(active_stop_orders)
           IN  /\ calls' = calls \o CancelCalls(oks)
               /\ cancelled' = cancelled \cup
                      {active_stop_orders[s] : s \in {k \in DOMAIN oks : oks[k]}}
               /\ last_call' = IF walk = <<>> THEN last_call
                               ELSE Called("cancel_order", oks[walk[Len(walk)]])
    /\ active_positions' = EmptyDict
    /\ active_stop_orders' = EmptyDict
    /\ lpc' = "returned"
    /\ UNCHANGED <<econ_vars, val_vars, trades_executed, trades_skipped,
                   peak_equity, signal, live_price, should_stop, current_equity,
                   available_balance, margin_required, before, stops_placed>>

\* _update_stop_loss up to its first adapter call
UpdateStopLoss ==
    /\ lpc = "update_stop"
    /\ lpc' = IF Symbol \notin DOMAIN active_positions \/ signal.stop_price = 0
              THEN "returned"
              ELSE IF Symbol \in DOMAIN active_stop_orders
              THEN "cancel_old_stop"
              ELSE "place_new_stop"
    /\ UNCHANGED <<econ_vars, val_vars, trades_executed, trades_skipped,
                   active_positions, active_stop_orders, peak_equity, signal,
                   live_price, should_stop, current_equity, available_balance,
                   margin_required, last_call, calls, before, stops_placed,
                   cancelled>>

\* _update_stop_loss: cancel the old stop order
CancelOldStop ==
    /\ lpc = "cancel_old_stop"
    /\ \E ok \in BOOLEAN :
           /\ last_call' = Called("cancel_order", ok)
           /\ calls' = Append(calls, OrderCall("cancel_order", ok, Symbol, 0, FALSE,
                                               active_stop_orders[Symbol]))
           /\ cancelled' = IF ok THEN cancelled \cup {active_stop_orders[Symbol]}
                           ELSE cancelled
    /\ lpc' = "place_new_stop"
    /\ UNCHANGED <<econ_vars, val_vars, trades_executed, trades_skipped,
                   active_positions, active_stop_orders, peak_equity, signal,
                   live_price, should_stop, current_equity, available_balance,
                   margin_required, before, stops_placed>>

\* _update_stop_loss: place the new stop order
PlaceNewStop ==
    /\ lpc = "place_new_stop"
    /\ \/ /\ last_call' = Called("place_stop_market_order", FALSE)
          /\ calls' = Append(calls, OrderCall("place_stop_market_order", FALSE,
                                              Symbol, active_positions[Symbol].size,
                                              TRUE, 0))
          /\ UNCHANGED <<active_stop_orders, stops_placed>>
       \/ /\ last_call' = Called("place_stop_market_order", TRUE)
          /\ stops_placed' = stops_placed + 1
          /\ calls' = Append(calls, OrderCall("place_stop_market_order", TRUE,
                                              Symbol, active_positions[Symbol].size,
                                              TRUE, stops_placed'))
          /\ active_stop_orders' =
                 Merge(active_stop_orders, [s \in {Symbol} |-> stops_placed'])
    /\ lpc' = "returned"
    /\ UNCHANGED <<econ_vars, val_vars, trades_executed, trades_skipped,
                   active_positions, peak_equity, signal, live_price,
                   should_stop, current_equity, available_balance, margin_required,
                   before, cancelled>>

\* process_signal is over (returned, or left by an exception); the caller
\* may hand the engine its next signal
NextSignal ==
    /\ lpc \in {"returned", "raised"}
    /\ lpc' = "idle"
    /\ signal' = NoSignal
    /\ live_price' = 0
    /\ should_stop' = FALSE
    /\ current_equity' = 0
    /\ available_balance' = 0
    /\ margin_required' = None
    /\ last_call' = Called("none", TRUE)
    /\ calls' = <<>>
    /\ before' = EngineFields
    /\ UNCHANGED <<econ_vars, val_vars, trades_executed, trades_skipped,
                   active_positions, active_stop_orders, peak_equity, stops_placed,
                   cancelled>>

LiveNext ==
    \/ ProcessSignal
    \/ CheckSafetyLimits
    \/ UpdatePositions
    \/ ProcessEntrySignal
    \/ CheckEntryBalance
    \/ PlaceEntryOrder
    \/ PlaceStopLoss
    \/ ClosePositions
    \/ CancelStopOrders
    \/ UpdateStopLoss
    \/ CancelOldStop
    \/ PlaceNewStop
    \/ NextSignal


SpecLive == LiveInit /\ [][LiveNext]_vars

\* C16 (SpecLive): no failure of an execution-adapter call made while a
\* signal is processed leaves process_signal as an exception, for every
\* action and every adapter call; and a failed entry-order placement counts
\* one skipped trade and no executed trade.
C16_AdapterFailuresCaught ==
    /\ [](lpc /= "raised")
    /\ [][(lpc = "place_entry" /\ last_call' = Called("place_market_order", FALSE)) =>
              /\ trades_skipped' = trades_skipped + 1
              /\ trades_executed' = trades_executed]_vars

(***************************************************************************)
(* MarketSpec's pip calculations.  A symbol is the sequence of its         *)
(* characters, so that slicing and substring tests are computed.           *)
(***************************************************************************)
USD == <<"U", "S", "D">>
JPY == <<"J", "P", "Y">>

Symbols ==
    {<<"E", "U", "R">> \o USD, USD \o JPY, USD \o <<"C", "H", "F">>,
     <<"E", "U", "R", "G", "B", "P">>}

\* s[-3:]
LastThree(s) == IF Len(s) <= 3 THEN s ELSE SubSeq(s, Len(s) - 2, Len(s))

\* sub in s
Contains(sub, s) ==
    \E i \in 1..(Len(s) - Len(sub) + 1) : SubSeq(s, i, i + Len(sub) - 1) = sub

\* s.startswith(prefix)
StartsWith(s, prefix) ==
    Len(s) >= Len(prefix) /\ SubSeq(s, 1, Len(prefix)) = prefix

calculate_pip_value_per_lot(self, entry_price) ==
    IF self.asset_class /= "forex" \/ self.contract_size = None
    THEN Ret(R(0))
    ELSE IF Contains(USD, LastThree(self.symbol))
    THEN Ret(R(10))
    ELSE IF StartsWith(self.symbol, USD)
    THEN LET pip_size == IF Contains(JPY, self.symbol) THEN <<1, 100>>
                         ELSE Or(self.pip_value, <<1, 10000>>)
         IN  RDiv(RMul(self.contract_size, pip_size), entry_price)
    ELSE Ret(R(10))

calculate_pip_value_per_unit(self, entry_price) ==
    IF self.asset_class /= "forex" \/ self.contract_size = None
    THEN Ret(R(0))
    ELSE LET pip_value_per_lot == calculate_pip_value_per_lot(self, entry_price)
         IN  IF pip_value_per_lot.raised
             THEN Raise
             ELSE IF RLe(pip_value_per_lot.val, R(0))
             THEN Ret(R(0))
             ELSE RDiv(pip_value_per_lot.val, self.contract_size)

\* forex and crypto markets with and without a contract size and a pip
\* value, unleveraged or with a leverage of 0
PipMarketSpecs ==
    [asset_class : {"forex", "crypto"},
     symbol : Symbols,
     leverage : {R(0), R(1)},
     contract_size : {None, R(0), R(100000)},
     pip_value : {None, <<1, 100>>},
     commission_rate : {R(0)},
     initial_margin_per_contract : {None},
     intraday_margin_per_contract : {None},
     maintenance_margin_rate : {None}]

PipInit ==
    /\ criteria = EmptyDict
    /\ NoValidation
    /\ NoEngine
    /\ market_spec \in PipMarketSpecs
    /\ margin_call_level = R(1)
    /\ call = NoCall
    /\ result = NoResult
    /\ pc = "idle"

CalculatePipValuePerLot ==
    /\ pc = "idle"
    /\ \E p \in Prices :
           Returns([op |-> "calculate_pip_value_per_lot", entry_price |-> p],
                   calculate_pip_value_per_lot(market_spec, p))

CalculatePipValuePerUnit ==
    /\ pc = "idle"
    /\ \E p \in Prices :
           Returns([op |-> "calculate_pip_value_per_unit", entry_price |-> p],
                   calculate_pip_value_per_unit(market_spec, p))

PipNext ==
    \/ CalculatePipValuePerLot
    \/ CalculatePipValuePerUnit
    \/ CalculateMargin
    \/ AdjustQuantityForCash
    \/ Discard

SpecPip == PipInit /\ [][PipNext]_vars

\* the call divides by a zero leverage, entry price or contract size
C17_ZeroDivisor ==
    \/ /\ call.op \in {"calculate_margin", "adjust_quantity_for_cash"}
       /\ market_spec.leverage = R(0)
    \/ /\ call.op = "adjust_quantity_for_cash"
       /\ call.entry_price = R(0)
    \/ /\ call.op = "calculate_pip_value_per_lot"
       /\ market_spec.asset_class = "forex"
       /\ market_spec.contract_size /= None
       /\ StartsWith(market_spec.symbol, USD)
       /\ call.entry_price = R(0)
    \/ /\ call.op = "calculate_pip_value_per_unit"
       /\ market_spec.asset_class = "forex"
       /\ market_spec.contract_size = R(0)

\* C17 (SpecPip): no margin or pip calculation raises a division-by-zero
\* fault; with a zero leverage, entry price or contract size as divisor the
\* call returns the sentinel 0.0.
C17_NoDivisionFault ==
    pc = "returned" =>
        /\ ~result.raised
        /\ C17_ZeroDivisor => result = Ret(R(0))


\* ---------------------------------------------------------------------
\* Market profiles: MarketSpec.from_market_profile and load_from_profiles
\* ---------------------------------------------------------------------

EURUSD == <<"E", "U", "R">> \o USD
BTCUSDT == <<"B", "T", "C">> \o USD \o <<"T">>
ETHUSD == <<"E", "T", "H">> \o USD
AAPL == <<"A", "A", "P", "L">>

ProfileSymbols == {EURUSD, BTCUSDT, ETHUSD, AAPL}

\* the fields of a profile that the model follows; the remaining fields of
\* from_market_profile are read by the same merged.get(key, default)
ProfileFields == {"asset_class", "leverage", "contract_size", "commission_rate"}

Entry(k, v) == [x \in {k} |-> v]

\* a symbol's profile: any subset of asset_class, leverage, contract_size
MarketProfiles ==
    {Merge(Merge(a, l), c) :
         a \in {EmptyDict, Entry("asset_class", "forex"), Entry("asset_class", "futures")},
         l \in {EmptyDict, Entry("leverage", R(50))},
         c \in {EmptyDict, Entry("contract_size", R(100000))}}

\* the defaults of one asset class: any subset of leverage, contract_size
ClassDefaults ==
    {Merge(l, c) :
         l \in {EmptyDict, Entry("leverage", R(20))},
         c \in {EmptyDict, Entry("contract_size", R(1000))}}

\* the asset_class_defaults section of the profiles file
AssetClassDefaults ==
    UNION {[classes -> ClassDefaults] :
               classes \in SUBSET {"forex", "crypto", "futures"}}

\* the markets section: no entry for the symbol, or its profile
Markets(symbol) == {EmptyDict} \cup {Entry(symbol, p) : p \in MarketProfiles}

\* the merge with the asset-class defaults laid over the profile
from_market_profile_defaults_win(symbol, profile, asset_class_defaults) ==
    LET merged == Merge(profile, asset_class_defaults)
    IN  [symbol |-> symbol,
         exchange |-> Get(merged, "exchange", "unknown"),
         asset_class |-> Get(merged, "asset_class", "crypto"),
         leverage |-> Get(merged, "leverage", R(1)),
         contract_size |-> Get(merged, "contract_size", None),
         commission_rate |-> Get(merged, "commission_rate", <<1, 2500>>)]

from_market_profile(symbol, profile, asset_class_defaults) ==
    LET merged == IF DOMAIN asset_class_defaults /= {}
                  THEN Merge(Merge(EmptyDict, asset_class_defaults), profile)
                  ELSE Merge(EmptyDict, profile)
    IN  [symbol |-> symbol,
         exchange |-> Get(merged, "exchange", "unknown"),
         asset_class |-> Get(merged, "asset_class", "crypto"),
         leverage |-> Get(merged, "leverage", R(1)),
         contract_size |-> Get(merged, "contract_size", None),
         commission_rate |-> Get(merged, "commission_rate", <<1, 2500>>)]

\* the asset class inferred from the symbol, "" when none is
InferredClass(symbol) ==
    IF Contains(USD, symbol) /\ Len(symbol) = 6 THEN "forex"
    ELSE IF \E crypto \in {<<"B", "T", "C">>, <<"E", "T", "H">>, USD \o <<"T">>} :
                Contains(crypto, symbol)
         THEN "crypto"
         ELSE ""

LoadRet(spec) == [raised |-> FALSE, spec |-> spec]

load_from_profiles(symbol, exists, markets, asset_class_defaults) ==
    LET inferred == InferredClass(symbol)
        found == symbol \in DOMAIN markets
        market_profile ==
            IF found THEN markets[symbol]
            ELSE Merge(asset_class_defaults[inferred], Entry("asset_class", inferred))
        asset_class == Get(market_profile, "asset_class", "crypto")
        defaults == Get(asset_class_defaults, asset_class, EmptyDict)
    IN  IF ~exists THEN Raise
        ELSE IF ~found /\ ~(inferred /= "" /\ inferred \in DOMAIN asset_class_defaults)
        THEN Raise
        ELSE LoadRet(from_market_profile(symbol, market_profile, defaults))

\* the fallback MarketSpec(symbol=symbol, exchange='unknown', asset_class='crypto')
BasicMarketSpec(symbol) ==
    [symbol |-> symbol,
     exchange |-> "unknown",
     asset_class |-> "crypto",
     leverage |-> R(1),
     contract_size |-> None,
     commission_rate |-> <<1, 2500>>]

\* a MarketSpec the caller hands to apply_filters
GivenMarketSpec(symbol) == [BasicMarketSpec(symbol) EXCEPT !.exchange = "binance"]

\* what apply_filters returns, with the market spec of the FilterContext it
\* handed to the filter manager
Filtered(passed, spec) == [raised |-> FALSE, flag |-> passed, market_spec |-> spec]

apply_filters(filter_manager, given, symbol, exists, markets, asset_class_defaults, passed) ==
    IF ~filter_manager THEN RetBool(TRUE)
    ELSE IF given THEN Filtered(passed, GivenMarketSpec(symbol))
    ELSE LET loaded == load_from_profiles(symbol, exists, markets, asset_class_defaults)
         IN  IF loaded.raised
             THEN Filtered(passed, BasicMarketSpec(symbol))
             ELSE Filtered(passed, loaded.spec)

\* ---------------------------------------------------------------------
\* Data frames: StrategyBase._validate_dataframe
\* ---------------------------------------------------------------------

OHLCV == {"open", "high", "low", "close", "volume"}

\* the index of a data frame: a DatetimeIndex in ascending order, a
\* DatetimeIndex out of order, or an index of another type
IndexKinds == {"datetime_ascending", "datetime_unordered", "range"}

\* required_cols = None, the default
NoneCols == {"None"}

validate_dataframe(columns, index, required_cols) ==
    LET required == IF required_cols = NoneCols THEN OHLCV ELSE required_cols
        missing == {col \in required : col \notin columns}
    IN  IF missing /= {} THEN Raise
        ELSE IF index \notin {"datetime_ascending", "datetime_unordered"} THEN Raise
        ELSE Ret(None)

InputsInit ==
    /\ criteria = EmptyDict
    /\ NoValidation
    /\ NoEngine
    /\ market_spec \in {m \in PipMarketSpecs :
                           /\ m.symbol = EURUSD /\ m.asset_class = "forex"
                           /\ m.leverage = R(1) /\ m.contract_size = None
                           /\ m.pip_value = None}
    /\ margin_call_level = R(1)
    /\ call = NoCall
    /\ result = NoResult
    /\ pc = "idle"

LoadFromProfiles ==
    /\ pc = "idle"
    /\ \E symbol \in ProfileSymbols, exists \in BOOLEAN :
           \E markets \in Markets(symbol), asset_class_defaults \in AssetClassDefaults :
               /\ ~exists => (markets = EmptyDict /\ asset_class_defaults = EmptyDict)
               /\ Returns([op |-> "load_from_profiles", symbol |-> symbol,
                           exists |-> exists, markets |-> markets,
                           asset_class_defaults |-> asset_class_defaults],
                          load_from_profiles(symbol, exists, markets, asset_class_defaults))

ApplyFilters ==
    /\ pc = "idle"
    /\ \E symbol \in {EURUSD, AAPL}, exists \in BOOLEAN, filter_manager \in BOOLEAN,
          given \in BOOLEAN, passed \in BOOLEAN :
           \E markets \in {EmptyDict, Entry(symbol, Entry("leverage", R(50)))},
              asset_class_defaults \in {EmptyDict, Entry("forex", Entry("leverage", R(20)))} :
               /\ ~exists => (markets = EmptyDict /\ asset_class_defaults = EmptyDict)
               /\ Returns([op |-> "apply_filters", filter_manager |-> filter_manager,
                           given |-> given, symbol |-> symbol, exists |-> exists,
                           markets |-> markets,
                           asset_class_defaults |-> asset_class_defaults],
                          apply_filters(filter_manager, given, symbol, exists, markets,
                                        asset_class_defaults, passed))

ValidateDataframe ==
    /\ pc = "idle"
    /\ \E columns \in SUBSET OHLCV, index \in IndexKinds,
          required_cols \in {NoneCols, {"close"}} :
           Returns([op |-> "validate_dataframe", columns |-> columns, index |-> index,
                    required_cols |-> required_cols],
                   validate_dataframe(columns, index, required_cols))

InputsNext ==
    \/ LoadFromProfiles
    \/ ApplyFilters
    \/ ValidateDataframe
    \/ Discard

SpecInputs == InputsInit /\ [][InputsNext]_vars

\* the profile of the call's symbol in the markets section
ProfileOf(c) == c.markets[c.symbol]

\* the asset-class defaults that belong to a profile: those of its
\* asset_class, of crypto when it names none
DefaultsOf(c) ==
    Get(c.asset_class_defaults, Get(ProfileOf(c), "asset_class", "crypto"), EmptyDict)

\* C18 (SpecInputs): a MarketSpec loaded for a symbol takes every field of
\* the symbol's profile from the profile and every field the profile lacks
\* but its asset-class defaults have from the defaults; a symbol without a
\* profile whose asset class is inferred gets the inferred class and every
\* field of that class's defaults.
C18_ProfileOverridesDefaults ==
    (pc = "returned" /\ call.op = "load_from_profiles" /\ ~result.raised) =>
        IF call.symbol \in DOMAIN call.markets
        THEN \A f \in ProfileFields :
                 /\ f \in DOMAIN ProfileOf(call) => result.spec[f] = ProfileOf(call)[f]
                 /\ (f \notin DOMAIN ProfileOf(call) /\ f \in DOMAIN DefaultsOf(call)) =>
                        result.spec[f] = DefaultsOf(call)[f]
        ELSE LET defaults == call.asset_class_defaults[InferredClass(call.symbol)]
             IN  /\ result.spec.asset_class = InferredClass(call.symbol)
                 /\ \A f \in DOMAIN defaults : result.spec[f] = defaults[f]

\* a profile that overrides the leverage of its class's defaults and takes
\* the contract size from them
C18_Witness ==
    /\ pc = "returned"
    /\ call.op = "load_from_profiles"
    /\ ~result.raised
    /\ call.symbol \in DOMAIN call.markets
    /\ "leverage" \in DOMAIN ProfileOf(call)
    /\ "contract_size" \notin DOMAIN ProfileOf(call)
    /\ DOMAIN DefaultsOf(call) = {"leverage", "contract_size"}
    /\ result.spec.leverage = R(50)
    /\ result.spec.contract_size = R(1000)

\* the call needs a market spec that the profiles cannot supply: the file
\* is missing, or the symbol has no profile and no inferable asset class
\* with defaults
ConfigurationError(c) ==
    \/ ~c.exists
    \/ /\ c.symbol \notin DOMAIN c.markets
       /\ InferredClass(c.symbol) \notin DOMAIN c.asset_class_defaults

\* C19 (SpecInputs): an operation that needs the market spec of a symbol
\* whose load is a configuration error raises the error to its caller and
\* works with no MarketSpec in its place.
C19_ConfigurationErrorSurfaced ==
    /\ (pc = "returned" /\ call.op = "load_from_profiles" /\ ConfigurationError(call)) =>
           result.raised
    /\ (pc = "returned" /\ call.op = "apply_filters" /\ call.filter_manager
            /\ ~call.given /\ ConfigurationError(call)) =>
           result.raised

\* C20 (SpecInputs): a data frame that lacks a required column, or whose
\* index is not in chronological order, is rejected with an error.
C20_BadDataRejected ==
    (pc = "returned" /\ call.op = "validate_dataframe") =>
        LET required == IF call.required_cols = NoneCols THEN OHLCV
                        ELSE call.required_cols
        IN  (~(required \subseteq call.columns) \/ call.index /= "datetime_ascending") =>
                result.raised

(***************************************************************************)
(* Repeated runs on one data set.  The backtest engine, the metrics, the   *)
(* suitability assessor and the sensitivity analyzer are functions of the  *)
(* data, so on one data set each hands back one value; the Monte Carlo     *)
(* suite draws from a pseudo-random source that its seed fixes, so on one  *)
(* data set it hands back one result per seed (suite_draws).               *)
(***************************************************************************)
MaxRuns == 2

\* mc_suite = MonteCarloSuite(seed=42)
mc_suite_seed_of_run == 42 + Len(runs)

mc_suite_seed == 42

\* the seeds a suite is run with
Seeds == 42..(42 + MaxRuns)

\* what a suite may hand back on the data
SuiteDraws ==
    {[permutation |-> t, bootstrap |-> t, randomized_entry |-> t, combined |-> c] :
         t \in {[skipped |-> FALSE, p_values |-> AllPass]},
         c \in {[score |-> R(60), percentile |-> R(95)]}}
    \cup
    {[permutation |-> t, bootstrap |-> t, randomized_entry |-> t, combined |-> c] :
         t \in {[skipped |-> FALSE, p_values |-> AllFail]},
         c \in {[score |-> R(50), percentile |-> R(90)],
                [score |-> R(60), percentile |-> R(95)]}}

\* validate from the collaborators' results to the TrainingValidationResult
validate(crit, a, bt_result, metrics, suitability, mc, sens_results) ==
    LET quality == check_backtest_quality(crit, bt_result, metrics)
        mc_chk == check_monte_carlo_suite_conditional(crit, mc, suitability)
        sens_chk == IF a.run_sensitivity /\ a.sensitivity_params /= {}
                    THEN check_sensitivity(crit, sens_results)
                    ELSE EmptyDict
        all_checks == all_checks_of(quality, mc_chk, sens_chk)
    IN  [passed |-> passed_of(quality, all_checks),
         criteria_checks |-> all_checks,
         failure_reasons |->
             failure_reasons_of(crit, bt_result, metrics, mc, suitability,
                                sens_chk, all_checks)]

SeedInit ==
    /\ EconUnused
    /\ NoEngine
    /\ criteria \in CriteriaSet
    /\ vpc = "seeded"
    /\ args \in {[run_sensitivity |-> FALSE, sensitivity_params |-> {}],
                 [run_sensitivity |-> TRUE, sensitivity_params |-> {"fast_length"}]}
    /\ backtest_result \in {[total_trades |-> n] : n \in 0..1}
    /\ enhanced_metrics \in
           {[k \in {"profit_factor", "sharpe_ratio"} |-> R(1)],
            [k \in {"profit_factor", "sharpe_ratio"} |-> R(2)]}
    /\ quality_checks = EmptyDict
    /\ test_suitability \in {[t \in TestNames |-> TRUE],
                             [t \in TestNames |-> t = "randomized_entry"]}
    /\ mc_results = EmptyDict
    /\ mc_checks = EmptyDict
    /\ test_pass = EmptyDict
    /\ sensitivity_results =
           [sensitivity_analysis |->
                [p \in {"fast_length"} |->
                     [k \in {"coefficient_of_variation"} |-> <<1, 2>>]]]
    /\ sensitivity_checks = EmptyDict
    /\ validation_result = EmptyDict
    /\ suite_draws \in [Seeds -> SuiteDraws]
    /\ runs = <<>>

\* a Monte Carlo run with a seed of the caller's choice
RunMonteCarloSuite ==
    /\ vpc = "seeded"
    /\ Len(runs) < MaxRuns
    /\ \E seed \in Seeds :
           /\ mc_results' = suite_draws[seed]
           /\ runs' = Append(runs, [op |-> "run_monte_carlo", seed |-> seed,
                                    mc_results |-> suite_draws[seed]])
    /\ UNCHANGED <<live_vars, econ_vars, suite_draws, criteria, vpc, args,
                   backtest_result, enhanced_metrics, quality_checks,
                   test_suitability, mc_checks, test_pass, sensitivity_results,
                   sensitivity_checks, validation_result>>

\* one whole validate run on the data
ValidateRun ==
    /\ vpc = "seeded"
    /\ Len(runs) < MaxRuns
    /\ LET seed == mc_suite_seed
           mc == suite_draws[seed]
           returned == validate(criteria, args, backtest_result, enhanced_metrics,
                                test_suitability, mc, sensitivity_results)
       IN  /\ mc_results' = mc
           /\ validation_result' = returned
           /\ runs' = Append(runs, [op |-> "validate", seed |-> seed,
                                    mc_results |-> mc,
                                    validation_result |-> returned])
    /\ UNCHANGED <<live_vars, econ_vars, suite_draws, criteria, vpc, args,
                   backtest_result, enhanced_metrics, quality_checks,
                   test_suitability, mc_checks, test_pass, sensitivity_results,
                   sensitivity_checks>>

SeedNext == RunMonteCarloSuite \/ ValidateRun

SpecSeed == SeedInit /\ [][SeedNext]_vars

StepAfter(step) ==
    CASE step = "ready" -> "backtest"
      [] step = "backtest" -> "metrics"
      [] step = "metrics" -> "quality"
      [] step = "quality" -> "suitability"
      [] step = "suitability" -> "monte_carlo"
      [] step = "monte_carlo" -> "mc_checks"
      [] step = "mc_checks" -> "sensitivity"
      [] step = "sensitivity" -> "combine"
      [] step = "combine" -> "done"
      [] OTHER -> step

\* C22 (SpecValidate): a validate run goes through backtest, enhanced
\* metrics, quality checks, suitability assessment, Monte Carlo suite and its
\* checks, sensitivity analysis and aggregation in this order, one step at a
\* time, whatever the earlier checks found; each step leaves its result, and
\* the sensitivity analysis alone may be left out: it runs iff run_sensitivity
\* is true and sensitivity_params is not empty.
C22_FixedStepOrder ==
    [][/\ vpc' /= vpc => vpc' = StepAfter(vpc)
       /\ (vpc = "backtest" /\ vpc' /= vpc) => DOMAIN backtest_result' /= {}
       /\ (vpc = "metrics" /\ vpc' /= vpc) => DOMAIN enhanced_metrics' /= {}
       /\ (vpc = "quality" /\ vpc' /= vpc) => DOMAIN quality_checks' /= {}
       /\ (vpc = "suitability" /\ vpc' /= vpc) => DOMAIN test_suitability' /= {}
       /\ (vpc = "monte_carlo" /\ vpc' /= vpc) => DOMAIN mc_results' /= {}
       /\ (vpc = "mc_checks" /\ vpc' /= vpc) => DOMAIN mc_checks' /= {}
       /\ (vpc = "sensitivity" /\ vpc' /= vpc) =>
              ((DOMAIN sensitivity_results' /= {}) <=>
                   (args.run_sensitivity /\ args.sensitivity_params /= {}))
       /\ (vpc = "combine" /\ vpc' /= vpc) => DOMAIN validation_result' /= {}
      ]_vars

\* a run that failed its first check, the trade count, and still went
\* through the Monte Carlo checks and the sensitivity analysis to its end
C22_Witness ==
    /\ vpc = "done"
    /\ ~quality_checks.min_trades
    /\ DOMAIN mc_checks /= {}
    /\ DOMAIN sensitivity_results /= {}
    /\ DOMAIN validation_result /= {}

\* the rate the docstrings promise: the market's when the argument is None,
\* else the argument
RateArgument == IF call.commission_rate = None THEN market_spec.commission_rate
                ELSE call.commission_rate

\* required_cash = margin + commission at the promised rate
RequiredCashAt(rate) ==
    RAdd(calculate_margin_required(market_spec, call.entry_price, call.quantity).val,
         RMul(RMul(call.entry_price, call.quantity), rate))

\* cash / (price * (1/leverage + rate)) at the promised rate
MaxAffordableAt(rate) ==
    RDiv(call.available_cash,
         RMul(call.entry_price,
              RAdd(RDiv(R(1), market_spec.leverage).val, rate))).val

\* C23 (SpecEcon): can_afford_position and adjust_quantity_for_cash compute
\* with the market's commission rate only when the commission_rate argument
\* is None; a rate that is passed, 0 included, is the rate of the required
\* cash and of the affordable quantity.
C23_ExplicitRateUsed ==
    /\ (pc = "returned" /\ call.op = "can_afford_position" /\ ~result.raised) =>
           /\ result.val = RequiredCashAt(RateArgument)
           /\ result.flag = RLe(RequiredCashAt(RateArgument), call.available_cash)
    /\ (pc = "returned" /\ call.op = "adjust_quantity_for_cash" /\ ~result.raised) =>
           result.val = RMin(call.desired_quantity, MaxAffordableAt(RateArgument))

\* C24 (SpecEcon): for price > 0, desired_quantity > 0 and available_cash
\* >= 0, on every market with a positive leverage, leverage-based or with a
\* fixed margin per contract, adjust_quantity_for_cash returns a quantity
\* that is at most the desired one and that can_afford_position, asked with
\* the same price, cash and commission rate, reports affordable.
C24_AdjustedQuantityAffordable ==
    (/\ pc = "returned"
     /\ call.op = "adjust_quantity_for_cash"
     /\ RLt(R(0), market_spec.leverage)
     /\ RLt(R(0), call.entry_price)
     /\ RLt(R(0), call.desired_quantity)
     /\ RLe(R(0), call.available_cash)) =>
        /\ ~result.raised
        /\ RLe(result.val, call.desired_quantity)
        /\ LET afford == can_afford_position(market_spec, call.entry_price,
                                             result.val, call.available_cash,
                                             call.commission_rate)
           IN  ~afford.raised /\ afford.flag

\* C25 (SpecValidate): a returned result has passed = false iff its
\* failure_reasons hold a reason other than the sensitivity reason; a failed
\* result has a reason and a passed one at most the sensitivity reason.
C25_FailedIffReason ==
    vpc = "done" =>
        LET others == WithoutSensitivity(validation_result.failure_reasons)
        IN  /\ ~validation_result.passed <=> others /= <<>>
            /\ ~validation_result.passed => validation_result.failure_reasons /= <<>>
            /\ validation_result.passed =>
                   Len(validation_result.failure_reasons) <= 1

\* a passed result that carries the sensitivity reason, and nothing else
C25_Witness ==
    /\ vpc = "done"
    /\ validation_result.passed
    /\ Len(validation_result.failure_reasons) = 1
    /\ validation_result.failure_reasons[1].message = "Parameter sensitivity too high"


\* process_signal has ended, by a return or by an exception
SignalHandled == lpc \in {"returned", "raised"}

\* it was ended by an adapter query (get_account_balance, get_positions)
\* that raised
QueryFailed == lpc = "raised" /\ ~last_call.ok

\* C26: trades_executed and trades_skipped never decrease; with the adapter's
\* queries succeeding, a handled BUY or SELL signal of positive quantity that
\* passed the safety-limit check has raised exactly one of the two counters
\* by exactly one (also when the stop-loss placement after the entry
\* failed), and a signal stopped by the safety limits or carrying an invalid
\* quantity has changed neither.
C26_ExactlyOneCounterMoves ==
    /\ [][/\ trades_executed' >= trades_executed
          /\ trades_skipped' >= trades_skipped]_vars
    /\ []((SignalHandled /\ ~QueryFailed) =>
            LET executed == trades_executed - before.trades_executed
                skipped == trades_skipped - before.trades_skipped
            IN  /\ (/\ signal.action \in {"BUY", "SELL"}
                    /\ signal.quantity > 0
                    /\ ~should_stop)
                       => (executed \in {0, 1} /\ skipped \in {0, 1}
                             /\ executed + skipped = 1)
                /\ (should_stop \/ signal.quantity <= 0)
                       => (executed = 0 /\ skipped = 0))


\* the entry market orders among the order calls of the signal at hand
EntryOrders ==
    {i \in DOMAIN calls : calls[i].name = "place_market_order" /\ ~calls[i].reduce_only}

\* C27: an entry market order is placed only if, at that signal, the
\* refreshed active_positions holds no position for the symbol, the
\* adapter's available balance is > 0 and the margin calculate_margin gives
\* for current_price and the signal's quantity is <= the available balance;
\* the order is for the whole quantity of the signal, never a reduced one.
C27_EntryOnlyWhenAffordable ==
    \A i \in EntryOrders :
        LET margin == calculate_margin(market_spec, R(live_price),
                                       R(signal.quantity), TRUE)
        IN  /\ signal.action \in {"BUY", "SELL"}
            /\ Symbol \notin DOMAIN active_positions
            /\ available_balance > 0
            /\ ~margin.raised
            /\ ~RLt(R(available_balance), margin.val)
            /\ calls[i].symbol = Symbol
            /\ calls[i].quantity = signal.quantity

\* an entry order went through although the adapter reported a position of
\* another symbol
C27_Witness ==
    \E i \in EntryOrders :
        /\ calls[i].ok
        /\ OtherSymbol \in DOMAIN active_positions
        /\ available_balance = 50
        /\ live_price = 10


\* the order-placing and order-cancelling adapter calls
OrderCallNames == {"place_market_order", "place_stop_market_order", "cancel_order"}

\* C28: when check_safety_limits reports a breach, process_signal makes no
\* order-placing or order-cancelling adapter call for that signal, whatever
\* its action, and leaves active_positions, active_stop_orders and both
\* trade counters as they were before the signal; peak_equity never decreases.
C28_BreachStopsTrading ==
    /\ [][peak_equity' >= peak_equity]_vars
    /\ [](should_stop =>
            /\ \A i \in DOMAIN calls : calls[i].name \notin OrderCallNames
            /\ last_call.name \notin OrderCallNames
            /\ active_positions = before.active_positions
            /\ active_stop_orders = before.active_stop_orders
            /\ trades_executed = before.trades_executed
            /\ trades_skipped = before.trades_skipped
            /\ lpc = "returned")

\* a CLOSE signal was stopped by the drawdown limit while a position and a
\* stop order were tracked, after the peak had risen
C28_Witness ==
    /\ should_stop
    /\ lpc = "returned"
    /\ signal.action = "CLOSE"
    /\ peak_equity = 120
    /\ current_equity = 96
    /\ Symbol \in DOMAIN active_positions
    /\ Symbol \in DOMAIN active_stop_orders


\* the order calls of the signal at hand with the given name
CallsNamed(name) == SelectSeq(calls, LAMBDA c : c.name = name)

C30_RecordedStopIsLive ==
    (lpc \in {"idle", "returned", "raised"} /\ Symbol \in DOMAIN active_stop_orders) =>
        /\ active_stop_orders[Symbol] = stops_placed
        /\ active_stop_orders[Symbol] \notin cancelled

====
